---------------------------- MODULE Spec2Model ----------------------------
(***************************************************************************)
(* A model of the data-transformation filters of the host_inspector role:  *)
(*   filter_plugins/merge_filters.py   recursive_merge  (merge_dicts)      *)
(*   filter_plugins/combine_info.py    combine_info, strip_metadata        *)
(*   filter_plugins/extract_key.py     extract_key                         *)
(*   lookup_plugins/obfuscate.py       run, obfuscate_value  (obfuscate)   *)
(*                                                                         *)
(* Python values live in a heap of objects (lists and dicts are mutable    *)
(* and have an identity; scalars are immutable values).  A filter call is  *)
(* one action: it reads its arguments from the heap, mutates and allocates *)
(* as the code does, and records how it ended (returned or raised).        *)
(***************************************************************************)
EXTENDS Integers, Sequences, FiniteSets, TLC

VARIABLES
    heap,     \* the objects allocated so far: heap[a] is the object at address a
    inputs,   \* the caller's arguments (values; containers are references)
    pre,      \* the heap as it was when the last call was entered
    call      \* the last call: its operation, arguments and outcome

vars == <<heap, inputs, pre, call>>

---------------------------------------------------------------------------
(* Bounds of the model.                                                    *)

\* Merger inputs: base and overlay together hold at most this many nodes.
MaxNodes == 6
\* Merger inputs, list against list: each list holds at most this many elements.
MaxLen == 2
\* Merger inputs, mapping within mapping: at most this many levels below the top.
MaxDepth == 2
\* Stripper input: a Node of at most this many nodes.
MaxStripNodes == 4
\* Combiner inputs, any Nodes: the arguments hold at most this many nodes together.
MaxCombineNodes == 3
\* Combiner inputs, one-key sources: at most this many arguments.
MaxSources == 3
\* Extractor input, any Node: data holds at most this many nodes.
MaxExtractNodes == 4
\* Extractor input, a sequence under "objects": it holds at most this many elements.
MaxObjects == 2
\* Obfuscator input: a string is made of at most this many pieces.
MaxPieces == 3
\* Obfuscator input, terms of every kind: the lookup gets at most this many.
MaxTerms == 2
\* Merges in series, any mappings: base and overlays have at most this many
\* values (dicts, lists, scalars) together.
MaxSeriesNodes == 4

---------------------------------------------------------------------------
(* Values.  A string is the sequence of its characters.                    *)

Null == [t |-> "null"]
Bool(b) == [t |-> "bool", b |-> b]
Num(n) == [t |-> "num", n |-> n]
Str(s) == [t |-> "str", s |-> s]
Ref(a) == [t |-> "ref", a |-> a]

\* An unallocated list or dict literal (an input before it is built).
ListLit(es) == [t |-> "list", elems |-> es]
DictLit(en) == [t |-> "dict", entries |-> en]

\* Heap objects.  A dict keeps its entries <<key, value>> in insertion order.
ListObj(es) == [kind |-> "list", elems |-> es]
DictObj(en) == [kind |-> "dict", entries |-> en]

IsRef(v) == v.t = "ref"
IsStr(v) == v.t = "str"

\* isinstance(v, Mapping) / isinstance(v, dict)
IsMapping(h, v) == IsRef(v) /\ h[v.a].kind = "dict"
\* isinstance(v, list)
IsList(h, v) == IsRef(v) /\ h[v.a].kind = "list"
\* isinstance(v, Iterable): str, list and dict are; None, bool and numbers are not.
IsIterable(h, v) == IsStr(v) \/ IsRef(v)

SeqRange(s) == {s[i] : i \in 1..Len(s)}

DictKeys(d) == [i \in 1..Len(d.entries) |-> d.entries[i][1]]
HasKey(d, key) == \E i \in 1..Len(d.entries) : d.entries[i][1] = key
KeyIndex(d, key) == CHOOSE i \in 1..Len(d.entries) : d.entries[i][1] = key
GetItem(d, key) == d.entries[KeyIndex(d, key)][2]

\* d[key] = value: an existing key keeps its position, a new key is appended.
SetItem(d, key, value) ==
    IF HasKey(d, key)
    THEN DictObj([d.entries EXCEPT ![KeyIndex(d, key)] = <<key, value>>])
    ELSE DictObj(Append(d.entries, <<key, value>>))

\* Python's ==: numbers and bools compare by numeric value (True == 1),
\* lists elementwise, dicts by key set and values; everything else is unequal
\* across types.
NumOf(v) == IF v.t = "num" THEN v.n ELSE IF v.b THEN 1 ELSE 0

RECURSIVE PyEq(_, _, _)
PyEq(h, x, y) ==
    IF x.t \in {"num", "bool"} /\ y.t \in {"num", "bool"} THEN NumOf(x) = NumOf(y)
    ELSE IF x.t # y.t THEN FALSE
    ELSE IF x.t = "null" THEN TRUE
    ELSE IF x.t = "str" THEN x.s = y.s
    ELSE IF x.a = y.a THEN TRUE
    ELSE IF h[x.a].kind # h[y.a].kind THEN FALSE
    ELSE IF h[x.a].kind = "list"
         THEN /\ Len(h[x.a].elems) = Len(h[y.a].elems)
              /\ \A i \in 1..Len(h[x.a].elems) :
                     PyEq(h, h[x.a].elems[i], h[y.a].elems[i])
         ELSE /\ SeqRange(DictKeys(h[x.a])) = SeqRange(DictKeys(h[y.a]))
              /\ \A key \in SeqRange(DictKeys(h[x.a])) :
                     PyEq(h, GetItem(h[x.a], key), GetItem(h[y.a], key))

\* v in lst  (lst a sequence of values)
PyIn(h, v, lst) == \E i \in 1..Len(lst) : PyEq(h, v, lst[i])


---------------------------------------------------------------------------
(* filter_plugins/merge_filters.py                                         *)

\* How a call ends: the heap it leaves, and whether it returned or raised.
Returned(h) == [h |-> h, ok |-> TRUE]
Raised(h) == [h |-> h, ok |-> FALSE]

\* The elements set(v) is built from: the characters of a string, the
\* elements of a list, the keys of a dict.
IterElems(h, v) ==
    IF IsStr(v) THEN [i \in 1..Len(v.s) |-> Str(<<v.s[i]>>)]
    ELSE IF h[v.a].kind = "list" THEN h[v.a].elems
    ELSE [i \in 1..Len(h[v.a].entries) |-> Str(h[v.a].entries[i][1])]

\* hash(v) is defined for scalars; a list or a dict raises TypeError.
Hashable(v) == ~IsRef(v)

\* The distinct members of a set built from seq: of equal elements the
\* first one added is kept.
RECURSIVE Distinct(_, _)
Distinct(h, seq) ==
    IF seq = <<>> THEN <<>>
    ELSE LET front == Distinct(h, SubSeq(seq, 1, Len(seq) - 1))
             last == seq[Len(seq)]
         IN IF PyIn(h, last, front) THEN front ELSE Append(front, last)

\* list(s) of a set s: its members in the set's iteration order, which the
\* program does not control: any order.
Orderings(seq) ==
    LET n == Len(seq)
        perms == {p \in [1..n -> 1..n] : \A i, j \in 1..n : p[i] = p[j] => i = j}
    IN {[i \in 1..n |-> seq[p[i]]] : p \in perms}

ExtendFront(h, cur, value) ==
    LET base == h[cur.a].elems
        over == h[value.a].elems
        new == SelectSeq(over, LAMBDA v : ~PyIn(h, v, base))
    IN [h EXCEPT ![cur.a] = ListObj(new \o base)]
ExtendAll(h, cur, value) ==
    [h EXCEPT ![cur.a] = ListObj(h[cur.a].elems \o h[value.a].elems)]
ExtendSwapped(h, cur, value) ==
    LET base == h[cur.a].elems
        over == h[value.a].elems
        new == SelectSeq(base, LAMBDA v : ~PyIn(h, v, over))
    IN [h EXCEPT ![cur.a] = ListObj(base \o new)]
\* dict1[key].extend([v for v in value if v not in dict1[key]])
\* The comprehension is evaluated against dict1[key] as it is before extend.
ExtendNew(h, cur, value) ==
    LET base == h[cur.a].elems
        over == h[value.a].elems
        new == SelectSeq(over, LAMBDA v : ~PyIn(h, v, base))
    IN [h EXCEPT ![cur.a] = ListObj(base \o new)]

\* dict1[key] = list(set(dict1[key]) | set(value)): a fresh list.
\* (dict1[key] is never a set: a Node holds none.)
UnionInto(h, d1, key, cur, value) ==
    LET left == IterElems(h, cur)
        right == IterElems(h, value)
    IN IF \E i \in 1..Len(left) : ~Hashable(left[i]) THEN {Raised(h)}
       ELSE IF \E i \in 1..Len(right) : ~Hashable(right[i]) THEN {Raised(h)}
       ELSE {Returned([Append(h, ListObj(lst)) EXCEPT
                          ![d1] = SetItem(h[d1], key, Ref(Len(h) + 1))])
               : lst \in Orderings(Distinct(h, left \o right))}

\* The outcome of a nested call whose return value the caller drops.
Dropped(o) == IF o.ok THEN Returned(o.h) ELSE Raised(o.h)

RECURSIVE recursive_merge(_, _, _)
RECURSIVE MergeItems(_, _, _, _)

MergeNestedSwapped(h, cur, value) ==
    {Dropped(o) : o \in recursive_merge(h, value, cur)}
MergeNestedOverwriting(h, cur, value) ==
    {Returned([h EXCEPT ![cur.a] = h[value.a]])}
\* recursive_merge(dict1[key], value), its result dropped
MergeNested(h, cur, value) ==
    {Dropped(o) : o \in recursive_merge(h, cur, value)}

BothIterableStringsToo(h, cur, value) == IsIterable(h, cur) /\ IsIterable(h, value)
\* isinstance(dict1[key], Iterable) and isinstance(value, Iterable)
\*   and not isinstance(value, str)
BothIterable(h, cur, value) ==
    IsIterable(h, cur) /\ IsIterable(h, value) /\ ~IsStr(value)

\* dict1[key] = value, for a key dict1 has
Overwrite(h, dict1, key, value) ==
    [h EXCEPT ![dict1.a] = SetItem(h[dict1.a], key, value)]

AddKeyForgotten(h, dict1, key, value) == h
AddKeyCopying(h, dict1, key, value) ==
    IF IsRef(value)
    THEN [Append(h, h[value.a]) EXCEPT ![dict1.a] = SetItem(h[dict1.a], key, Ref(Len(h) + 1))]
    ELSE [h EXCEPT ![dict1.a] = SetItem(h[dict1.a], key, value)]
\* dict1[key] = value, for a key dict1 lacks
AddKey(h, dict1, key, value) ==
    [h EXCEPT ![dict1.a] = SetItem(h[dict1.a], key, value)]

\* One iteration of "for key, value in dict2.items()": the outcomes of
\* merging dict2's i-th entry into dict1.
MergeItem(h, dict1, dict2, i) ==
    LET key == h[dict2.a].entries[i][1]
        value == h[dict2.a].entries[i][2]
        d1 == h[dict1.a]
    IN IF HasKey(d1, key)
       THEN LET cur == GetItem(d1, key)
            IN IF IsMapping(h, cur) /\ IsMapping(h, value)
               THEN MergeNested(h, cur, value)
               ELSE IF BothIterable(h, cur, value)
               THEN IF IsList(h, cur) /\ IsList(h, value)
                    THEN {Returned(ExtendNew(h, cur, value))}
                    ELSE UnionInto(h, dict1.a, key, cur, value)
               ELSE {Returned(Overwrite(h, dict1, key, value))}
       ELSE {Returned(AddKey(h, dict1, key, value))}

\* The loop from dict2's i-th entry on; an exception ends it.
MergeItems(h, dict1, dict2, i) ==
    IF i > Len(h[dict2.a].entries) THEN {Returned(h)}
    ELSE UNION {IF o.ok THEN MergeItems(o.h, dict1, dict2, i + 1) ELSE {o}
                  : o \in MergeItem(h, dict1, dict2, i)}

\* recursive_merge(dict1, dict2): every way the call can end from heap h,
\* as [h, ok, ret]: the heap it leaves, whether it returned, and what.
recursive_merge(h, dict1, dict2) ==
    {[h |-> o.h, ok |-> o.ok, ret |-> IF o.ok THEN dict1 ELSE Null]
       : o \in MergeItems(h, dict1, dict2, 1)}

---------------------------------------------------------------------------
(* filter_plugins/combine_info.py                                          *)

\* keys_to_remove = ['failed', 'failed_condition', 'skipped', 'skip_reason',
\*                   'changed', 'false_condition']
keys_to_remove_and_facts ==
    << <<"f", "a", "i", "l", "e", "d">>,
       <<"f", "a", "i", "l", "e", "d", "_", "c", "o", "n", "d", "i", "t", "i", "o", "n">>,
       <<"s", "k", "i", "p", "p", "e", "d">>,
       <<"s", "k", "i", "p", "_", "r", "e", "a", "s", "o", "n">>,
       <<"c", "h", "a", "n", "g", "e", "d">>,
       <<"a", "n", "s", "i", "b", "l", "e", "_", "f", "a", "c", "t", "s">>,
       <<"f", "a", "l", "s", "e", "_", "c", "o", "n", "d", "i", "t", "i", "o", "n">> >>
keys_to_remove_but_last ==
    << <<"f", "a", "i", "l", "e", "d">>,
       <<"f", "a", "i", "l", "e", "d", "_", "c", "o", "n", "d", "i", "t", "i", "o", "n">>,
       <<"s", "k", "i", "p", "p", "e", "d">>,
       <<"s", "k", "i", "p", "_", "r", "e", "a", "s", "o", "n">>,
       <<"c", "h", "a", "n", "g", "e", "d">> >>
keys_to_remove ==
    << <<"f", "a", "i", "l", "e", "d">>,
       <<"f", "a", "i", "l", "e", "d", "_", "c", "o", "n", "d", "i", "t", "i", "o", "n">>,
       <<"s", "k", "i", "p", "p", "e", "d">>,
       <<"s", "k", "i", "p", "_", "r", "e", "a", "s", "o", "n">>,
       <<"c", "h", "a", "n", "g", "e", "d">>,
       <<"f", "a", "l", "s", "e", "_", "c", "o", "n", "d", "i", "t", "i", "o", "n">> >>

RECURSIVE strip_metadata(_, _)
RECURSIVE StripEach(_, _)

\* [h, vs]: strip_metadata of each value of vs in turn.
StripEach(h, vs) ==
    IF vs = <<>> THEN [h |-> h, vs |-> <<>>]
    ELSE LET r == strip_metadata(h, vs[1])
             rest == StripEach(r.h, Tail(vs))
         IN [h |-> rest.h, vs |-> <<r.v>> \o rest.vs]

StripDictInPlace(h, data) ==
    LET kept == SelectSeq(h[data.a].entries,
                          LAMBDA e : e[1] \notin SeqRange(keys_to_remove))
        r == StripEach(h, [i \in 1..Len(kept) |-> kept[i][2]])
    IN [h |-> [r.h EXCEPT ![data.a] =
                   DictObj([i \in 1..Len(kept) |-> <<kept[i][1], r.vs[i]>>])],
        v |-> data]
StripDictTopOnly(h, data) ==
    LET kept == SelectSeq(h[data.a].entries,
                          LAMBDA e : e[1] \notin SeqRange(keys_to_remove))
    IN [h |-> Append(h, DictObj(kept)), v |-> Ref(Len(h) + 1)]
\* {k: self.strip_metadata(v) for k, v in data.items() if k not in keys_to_remove}
StripDict(h, data) ==
    LET kept == SelectSeq(h[data.a].entries,
                          LAMBDA e : e[1] \notin SeqRange(keys_to_remove))
        r == StripEach(h, [i \in 1..Len(kept) |-> kept[i][2]])
    IN [h |-> Append(r.h, DictObj([i \in 1..Len(kept) |-> <<kept[i][1], r.vs[i]>>])),
        v |-> Ref(Len(r.h) + 1)]

StripListReversed(h, data) ==
    LET r == StripEach(h, h[data.a].elems)
        n == Len(r.vs)
    IN [h |-> Append(r.h, ListObj([i \in 1..n |-> r.vs[n + 1 - i]])),
        v |-> Ref(Len(r.h) + 1)]
StripListAsIs(h, data) ==
    [h |-> Append(h, ListObj(h[data.a].elems)), v |-> Ref(Len(h) + 1)]
\* [self.strip_metadata(item) for item in data]
StripList(h, data) ==
    LET r == StripEach(h, h[data.a].elems)
    IN [h |-> Append(r.h, ListObj(r.vs)), v |-> Ref(Len(r.h) + 1)]

\* strip_metadata(data) from heap h, as [h, v]: the heap it leaves and the
\* value it returns.
strip_metadata(h, data) ==
    IF IsMapping(h, data) THEN StripDict(h, data)
    ELSE IF IsList(h, data) THEN StripList(h, data)
    ELSE [h |-> h, v |-> data]

\* {'failed', 'failed_condition', 'skipped', 'skip_reason', 'changed',
\*  'ansible_facts', 'false_condition'}
combine_reserved ==
    { <<"f", "a", "i", "l", "e", "d">>,
      <<"f", "a", "i", "l", "e", "d", "_", "c", "o", "n", "d", "i", "t", "i", "o", "n">>,
      <<"s", "k", "i", "p", "p", "e", "d">>,
      <<"s", "k", "i", "p", "_", "r", "e", "a", "s", "o", "n">>,
      <<"c", "h", "a", "n", "g", "e", "d">>,
      <<"a", "n", "s", "i", "b", "l", "e", "_", "f", "a", "c", "t", "s">>,
      <<"f", "a", "l", "s", "e", "_", "c", "o", "n", "d", "i", "t", "i", "o", "n">> }

\* k.startswith(prefix)
startswithNever(k, prefix) == FALSE
startswith(k, prefix) ==
    Len(k) >= Len(prefix) /\ SubSeq(k, 1, Len(prefix)) = prefix

\* set(arg.keys()) - {...}, here in the order arg lists its keys.
relevant_keys_all(arg) == DictKeys(arg)
relevant_keys(arg) ==
    SelectSeq(DictKeys(arg), LAMBDA k : k \notin combine_reserved)

\* The keys of {k: arg[k] for k in relevant_keys if not k.startswith('ansible_')}
Selected(arg) ==
    SelectSeq(relevant_keys(arg), LAMBDA k : ~startswith(k, <<"a", "n", "s", "i", "b", "l", "e", "_">>))

\* data.update(...) with arg's values under the keys ks, in the order of ks.
RECURSIVE UpdateKeepingFirst(_, _, _)
UpdateKeepingFirst(data, arg, ks) ==
    IF ks = <<>> THEN data
    ELSE UpdateKeepingFirst(IF HasKey(data, ks[1]) THEN data
                            ELSE SetItem(data, ks[1], GetItem(arg, ks[1])),
                            arg, Tail(ks))
RECURSIVE Update(_, _, _)
Update(data, arg, ks) ==
    IF ks = <<>> THEN data
    ELSE Update(SetItem(data, ks[1], GetItem(arg, ks[1])), arg, Tail(ks))

RECURSIVE UpdateCopying(_, _, _, _)
UpdateCopying(h, data, arg, ks) ==
    IF ks = <<>> THEN h
    ELSE LET v == GetItem(arg, ks[1])
         IN UpdateCopying(IF IsRef(v)
                          THEN [Append(h, h[v.a]) EXCEPT
                                   ![data] = SetItem(h[data], ks[1], Ref(Len(h) + 1))]
                          ELSE [h EXCEPT ![data] = SetItem(h[data], ks[1], v)],
                          data, arg, Tail(ks))

CombineArgCopying(h, data, arg) ==
    IF IsMapping(h, arg)
    THEN {UpdateCopying(h, data, h[arg.a], ks) : ks \in Orderings(Selected(h[arg.a]))}
    ELSE {h}
\* One turn of the loop over args, on the dict at address data: the heaps it
\* can leave.  relevant_keys is a set, iterated in an order the program does
\* not control.
CombineArg(h, data, arg) ==
    IF IsMapping(h, arg)
    THEN {[h EXCEPT ![data] = Update(h[data], h[arg.a], ks)]
            : ks \in Orderings(Selected(h[arg.a]))}
    ELSE {h}

RECURSIVE CombineArgs(_, _, _)
CombineArgs(h, data, args) ==
    IF args = <<>> THEN {h}
    ELSE UNION {CombineArgs(g, data, Tail(args)) : g \in CombineArg(h, data, args[1])}

combine_info_into_first(h, args) ==
    IF args # <<>> /\ IsMapping(h, args[1])
    THEN {[h |-> g, v |-> args[1]] : g \in CombineArgs(h, args[1].a, Tail(args))}
    ELSE {[h |-> g, v |-> Ref(Len(h) + 1)]
            : g \in CombineArgs(Append(h, DictObj(<<>>)), Len(h) + 1, args)}
\* combine_info(*args) from heap h: the outcomes [h, v], the heap it leaves
\* and the value it returns.
combine_info(h, args) ==
    {[h |-> g, v |-> Ref(Len(h) + 1)]
       : g \in CombineArgs(Append(h, DictObj(<<>>)), Len(h) + 1, args)}

---------------------------------------------------------------------------
(* filter_plugins/extract_key.py                                           *)

\* An exception: its class, whether it is the one the handler of line 29
\* builds (and then the key its message names), and the text it carries
\* (for the handler's, str(e) of the exception it caught).
NoError == [type |-> "none", wraps |-> FALSE, key |-> <<>>, text |-> ""]
ShapeError ==
    [type |-> "AnsibleFilterError", wraps |-> FALSE, key |-> <<>>,
     text |-> "Input must be a dictionary containing an 'objects' key with a list of dictionaries."]
NotIterable ==
    [type |-> "TypeError", wraps |-> FALSE, key |-> <<>>, text |-> "object is not iterable"]
NoGet ==
    [type |-> "AttributeError", wraps |-> FALSE, key |-> <<>>,
     text |-> "object has no attribute 'get'"]
\* AnsibleFilterError(f"Error extracting key '{key}': {str(e)}")
ExtractionError(key, e) ==
    [type |-> "AnsibleFilterError", wraps |-> TRUE, key |-> key.s, text |-> e.text]

\* 'objects'
objects_key == <<"o", "b", "j", "e", "c", "t", "s">>

\* a in b, for two strings: a is a substring of b.
IsSubstring(a, b) ==
    \E i \in 0..(Len(b) - Len(a)) : SubSeq(b, i + 1, i + Len(a)) = a

\* Whether obj can stand on the right of "in": a number, a bool and None
\* raise TypeError.
CanContain(obj) == obj.t \notin {"null", "bool", "num"}

\* key in obj, for an obj that can contain.
KeyIn(h, key, obj) ==
    IF IsStr(obj) THEN IsSubstring(key.s, obj.s)
    ELSE IF IsList(h, obj) THEN PyIn(h, key, h[obj.a].elems)
    ELSE HasKey(h[obj.a], key.s)

\* [obj.get(key) for obj in objects if key in obj] over the elements objs:
\* [ok, vals, err], the values gathered, or the first exception.
RECURSIVE CollectPadding(_, _, _)
CollectPadding(h, objs, key) ==
    IF objs = <<>> THEN [ok |-> TRUE, vals |-> <<>>, err |-> NoError]
    ELSE LET obj == objs[1]
             rest == CollectPadding(h, Tail(objs), key)
         IN IF ~CanContain(obj) THEN [ok |-> FALSE, vals |-> <<>>, err |-> NotIterable]
            ELSE IF ~KeyIn(h, key, obj)
            THEN IF rest.ok THEN [rest EXCEPT !.vals = <<Null>> \o rest.vals] ELSE rest
            ELSE IF ~IsMapping(h, obj) THEN [ok |-> FALSE, vals |-> <<>>, err |-> NoGet]
            ELSE IF rest.ok
            THEN [rest EXCEPT !.vals = <<GetItem(h[obj.a], key.s)>> \o rest.vals]
            ELSE rest
RECURSIVE CollectSkippingNull(_, _, _)
CollectSkippingNull(h, objs, key) ==
    IF objs = <<>> THEN [ok |-> TRUE, vals |-> <<>>, err |-> NoError]
    ELSE LET obj == objs[1]
             rest == CollectSkippingNull(h, Tail(objs), key)
         IN IF ~CanContain(obj) THEN [ok |-> FALSE, vals |-> <<>>, err |-> NotIterable]
            ELSE IF ~KeyIn(h, key, obj) THEN rest
            ELSE IF ~IsMapping(h, obj) THEN [ok |-> FALSE, vals |-> <<>>, err |-> NoGet]
            ELSE IF rest.ok /\ GetItem(h[obj.a], key.s) # Null
            THEN [rest EXCEPT !.vals = <<GetItem(h[obj.a], key.s)>> \o rest.vals]
            ELSE rest
RECURSIVE Collect(_, _, _)
Collect(h, objs, key) ==
    IF objs = <<>> THEN [ok |-> TRUE, vals |-> <<>>, err |-> NoError]
    ELSE LET obj == objs[1]
             rest == Collect(h, Tail(objs), key)
         IN IF ~CanContain(obj) THEN [ok |-> FALSE, vals |-> <<>>, err |-> NotIterable]
            ELSE IF ~KeyIn(h, key, obj) THEN rest
            ELSE IF ~IsMapping(h, obj) THEN [ok |-> FALSE, vals |-> <<>>, err |-> NoGet]
            ELSE IF rest.ok
            THEN [rest EXCEPT !.vals = <<GetItem(h[obj.a], key.s)>> \o rest.vals]
            ELSE rest

\* The body of the try statement: [ok, vals, err].
ExtractBody(h, data, key) ==
    IF ~IsMapping(h, data) \/ ~HasKey(h[data.a], objects_key)
    THEN [ok |-> FALSE, vals |-> <<>>, err |-> ShapeError]
    ELSE LET objects == GetItem(h[data.a], objects_key)
         IN IF ~IsIterable(h, objects)
            THEN [ok |-> FALSE, vals |-> <<>>, err |-> NotIterable]
            ELSE Collect(h, IterElems(h, objects), key)

\* except Exception as e: raise AnsibleFilterError(...)
\* Every exception the body raises is an Exception, its own
\* AnsibleFilterError included.
Handled(key, e) == ExtractionError(key, e)

\* extract_key(data, key) from heap h: [h, ok, ret, err], the heap it
\* leaves and the list it returns, or the exception it raises.
extract_key(h, data, key) ==
    LET b == ExtractBody(h, data, key)
    IN IF b.ok
       THEN [h |-> Append(h, ListObj(b.vals)), ok |-> TRUE,
             ret |-> Ref(Len(h) + 1), err |-> NoError]
       ELSE [h |-> h, ok |-> FALSE, ret |-> Null, err |-> Handled(key, b.err)]

---------------------------------------------------------------------------
(* lookup_plugins/obfuscate.py                                             *)

\* [a-zA-Z0-9-]
AlnumHyphen ==
    { "a", "b", "c", "d", "e", "f", "g", "h", "i", "j", "k", "l", "m",
      "n", "o", "p", "q", "r", "s", "t", "u", "v", "w", "x", "y", "z",
      "A", "B", "C", "D", "E", "F", "G", "H", "I", "J", "K", "L", "M",
      "N", "O", "P", "Q", "R", "S", "T", "U", "V", "W", "X", "Y", "Z",
      "0", "1", "2", "3", "4", "5", "6", "7", "8", "9", "-" }

\* Whether p stands in s at place i.
StartsAt(s, i, p) ==
    i + Len(p) - 1 <= Len(s) /\ SubSeq(s, i, i + Len(p) - 1) = p

\* The place where the longest run of characters of class from place i of
\* s ends (i - 1 when s[i] is not of the class): + is greedy.
RunEnd(s, i, class) ==
    CHOOSE j \in (i - 1)..Len(s) :
        /\ \A k \in i..j : s[k] \in class
        /\ j = Len(s) \/ s[j + 1] \notin class

\* 'GPU-' and the 'XXXXXX' that replaces group 2
GpuPrefix == <<"G", "P", "U", "-">>
GpuMask == <<"X", "X", "X", "X", "X", "X">>

\* re.sub(r'(GPU-)([a-zA-Z0-9-]+)', r'\1XXXXXX', value), from place i on:
\* the leftmost match, then the next one after it.
RECURSIVE SubGpuLazy(_, _)
SubGpuLazy(s, i) ==
    IF i > Len(s) THEN <<>>
    ELSE IF StartsAt(s, i, GpuPrefix) /\ RunEnd(s, i + Len(GpuPrefix), AlnumHyphen) >= i + Len(GpuPrefix)
    THEN GpuPrefix \o GpuMask \o SubGpuLazy(s, i + Len(GpuPrefix) + 1)
    ELSE <<s[i]>> \o SubGpuLazy(s, i + 1)
RECURSIVE SubGpu(_, _)
SubGpu(s, i) ==
    IF i > Len(s) THEN <<>>
    ELSE IF StartsAt(s, i, GpuPrefix) /\ RunEnd(s, i + Len(GpuPrefix), AlnumHyphen) >= i + Len(GpuPrefix)
    THEN GpuPrefix \o GpuMask \o SubGpu(s, RunEnd(s, i + Len(GpuPrefix), AlnumHyphen) + 1)
    ELSE <<s[i]>> \o SubGpu(s, i + 1)

\* '/home/' and '[OBFUSCATED]'
HomePrefix == <<"/", "h", "o", "m", "e", "/">>
Obfuscated == <<"[", "O", "B", "F", "U", "S", "C", "A", "T", "E", "D", "]">>

\* Whether s[k] is matched by [^/].
NotSlashAny(s, k) == TRUE
NotSlash(s, k) == s[k] # "/"

\* re.sub(r'/home/[^/]+', r'/home/[OBFUSCATED]', value), from place i on.
RECURSIVE SubHome(_, _)
SubHome(s, i) ==
    IF i > Len(s) THEN <<>>
    ELSE LET from == i + Len(HomePrefix)
             to == CHOOSE j \in (from - 1)..Len(s) :
                       /\ \A k \in from..j : NotSlash(s, k)
                       /\ j = Len(s) \/ ~NotSlash(s, j + 1)
         IN IF StartsAt(s, i, HomePrefix) /\ to >= from
            THEN HomePrefix \o Obfuscated \o SubHome(s, to + 1)
            ELSE <<s[i]>> \o SubHome(s, i + 1)

\* key.lower(), for the letters a key is written in.
UpperCase == <<"A", "B", "C", "D", "E", "F", "G", "H", "I", "J", "K", "L", "M", "N", "O", "P", "Q", "R", "S", "T", "U", "V", "W", "X", "Y", "Z">>
LowerCase == <<"a", "b", "c", "d", "e", "f", "g", "h", "i", "j", "k", "l", "m", "n", "o", "p", "q", "r", "s", "t", "u", "v", "w", "x", "y", "z">>
LowerOf(c) ==
    IF \E i \in 1..Len(UpperCase) : UpperCase[i] = c
    THEN LowerCase[CHOOSE i \in 1..Len(UpperCase) : UpperCase[i] = c]
    ELSE c
lowerAsIs(key) == key
lower(key) == [i \in 1..Len(key) |-> LowerOf(key[i])]

\* ['username', 'user', 'hostname', 'user_id']
sensitive_keys == { <<"u", "s", "e", "r", "n", "a", "m", "e">>, <<"u", "s", "e", "r">>, <<"h", "o", "s", "t", "n", "a", "m", "e">>, <<"u", "s", "e", "r", "_", "i", "d">> }

ObfuscateStrKeepingEmpty(value, key) ==
    LET masked == SubGpu(value.s, 1)
    IN IF IsStr(key) /\ key.s # <<>> /\ lower(key.s) \in sensitive_keys
       THEN IF masked = <<>> THEN Str(masked) ELSE Str(Obfuscated)
       ELSE IF IsStr(key) /\ key.s = <<"w", "a", "n", "_", "a", "d", "d", "r", "e", "s", "s">>
       THEN Str(Obfuscated)
       ELSE IF IsStr(key) /\ key.s = <<"p", "a", "t", "h">>
       THEN Str(SubHome(masked, 1))
       ELSE Str(masked)
\* The str branch of obfuscate_value: key is None (Null) or a str.
ObfuscateStr(value, key) ==
    LET masked == SubGpu(value.s, 1)
    IN IF IsStr(key) /\ key.s # <<>> /\ lower(key.s) \in sensitive_keys
       THEN Str(Obfuscated)
       ELSE IF IsStr(key) /\ key.s = <<"w", "a", "n", "_", "a", "d", "d", "r", "e", "s", "s">>
       THEN Str(Obfuscated)
       ELSE IF IsStr(key) /\ key.s = <<"p", "a", "t", "h">>
       THEN Str(SubHome(masked, 1))
       ELSE Str(masked)

RECURSIVE obfuscate_value(_, _, _)
RECURSIVE ObfuscateEach(_, _, _)
\* [h, vs]: obfuscate_value of each value of vs in turn, under the key of
\* keys at its place.
ObfuscateEach(h, vs, keys) ==
    IF vs = <<>> THEN [h |-> h, vs |-> <<>>]
    ELSE LET r == obfuscate_value(h, vs[1], keys[1])
             rest == ObfuscateEach(r.h, Tail(vs), Tail(keys))
         IN [h |-> rest.h, vs |-> <<r.v>> \o rest.vs]

\* {k: obfuscate_value(v, k) for k, v in value.items()}
ObfuscateDict(h, value) ==
    LET en == h[value.a].entries
        r == ObfuscateEach(h, [i \in 1..Len(en) |-> en[i][2]],
                           [i \in 1..Len(en) |-> Str(en[i][1])])
    IN [h |-> Append(r.h, DictObj([i \in 1..Len(en) |-> <<en[i][1], r.vs[i]>>])),
        v |-> Ref(Len(r.h) + 1)]

\* [obfuscate_value(item) for item in value]
ObfuscateList(h, value) ==
    LET es == h[value.a].elems
        r == ObfuscateEach(h, es, [i \in 1..Len(es) |-> Null])
    IN [h |-> Append(r.h, ListObj(r.vs)), v |-> Ref(Len(r.h) + 1)]

obfuscate_value_keyed(h, value, key) ==
    IF IsStr(value) THEN [h |-> h, v |-> ObfuscateStr(value, key)]
    ELSE IF IsMapping(h, value) THEN ObfuscateDict(h, value)
    ELSE IF IsList(h, value)
    THEN LET es == h[value.a].elems
             r == ObfuscateEach(h, es, [i \in 1..Len(es) |-> key])
         IN [h |-> Append(r.h, ListObj(r.vs)), v |-> Ref(Len(r.h) + 1)]
    ELSE [h |-> h, v |-> value]

obfuscate_value_of_any_scalar(h, value, key) ==
    IF IsStr(value) THEN [h |-> h, v |-> ObfuscateStr(value, key)]
    ELSE IF IsMapping(h, value) THEN ObfuscateDict(h, value)
    ELSE IF IsList(h, value) THEN ObfuscateList(h, value)
    ELSE [h |-> h, v |-> IF IsStr(key) /\ ObfuscateStr(Str(<<>>), key) = Str(Obfuscated)
                         THEN Str(Obfuscated) ELSE value]

\* obfuscate_value(value, key) from heap h, as [h, v].
obfuscate_value(h, value, key) ==
    IF IsStr(value) THEN [h |-> h, v |-> ObfuscateStr(value, key)]
    ELSE IF IsMapping(h, value) THEN ObfuscateDict(h, value)
    ELSE IF IsList(h, value) THEN ObfuscateList(h, value)
    ELSE [h |-> h, v |-> value]

RECURSIVE ObfuscateTermsAll(_, _)
ObfuscateTermsAll(h, terms) ==
    IF terms = <<>> THEN [h |-> h, vs |-> <<>>]
    ELSE LET r == obfuscate_value(h, terms[1], Null)
             rest == ObfuscateTermsAll(r.h, Tail(terms))
         IN [h |-> rest.h, vs |-> <<r.v>> \o rest.vs]
\* The loop over terms: [h, vs], the results gathered.
RECURSIVE ObfuscateTerms(_, _)
ObfuscateTerms(h, terms) ==
    IF terms = <<>> THEN [h |-> h, vs |-> <<>>]
    ELSE LET r == IF IsMapping(h, terms[1])
                  THEN obfuscate_value(h, terms[1], Null)
                  ELSE [h |-> h, v |-> terms[1]]
             rest == ObfuscateTerms(r.h, Tail(terms))
         IN [h |-> rest.h, vs |-> <<r.v>> \o rest.vs]

\* run(terms) from heap h, as [h, v]: a single argument that is no list
\* counts as a list of one term.
run(h, terms) ==
    LET r == ObfuscateTerms(h, IF IsList(h, terms) THEN h[terms.a].elems ELSE <<terms>>)
    IN [h |-> Append(r.h, ListObj(r.vs)), v |-> Ref(Len(r.h) + 1)]

---------------------------------------------------------------------------
(* Inputs: Node values (Null, Bool, Number, String, Sequence, Mapping)     *)
(* built as trees: a fresh input shares no object with another.            *)

\* Building a literal: its children first, then the object itself.
RECURSIVE Build(_, _)
RECURSIVE BuildAll(_, _)
\* [h, v]: the heap after building literal lit, and the value that names it.
Build(h, lit) ==
    IF lit.t = "list"
    THEN LET r == BuildAll(h, lit.elems)
         IN [h |-> Append(r.h, ListObj(r.vs)), v |-> Ref(Len(r.h) + 1)]
    ELSE IF lit.t = "dict"
    THEN LET r == BuildAll(h, [i \in 1..Len(lit.entries) |-> lit.entries[i][2]])
         IN [h |-> Append(r.h, DictObj([i \in 1..Len(lit.entries) |->
                                           <<lit.entries[i][1], r.vs[i]>>])),
             v |-> Ref(Len(r.h) + 1)]
    ELSE [h |-> h, v |-> lit]
\* [h, vs]: the same for a sequence of literals.
BuildAll(h, lits) ==
    IF lits = <<>> THEN [h |-> h, vs |-> <<>>]
    ELSE LET r == Build(h, lits[1])
             rest == BuildAll(r.h, Tail(lits))
         IN [h |-> rest.h, vs |-> <<r.v>> \o rest.vs]

\* The scalars of the merger's inputs: one of each type, and a second number.
MergeScalars == {Null, Bool(TRUE), Num(1), Num(2), Str(<<"a", "b">>)}
\* The keys of the merger's inputs, in the order a literal lists them.
MergeKeys == << <<"j">>, <<"k">> >>

\* An input is a shape, a literal whose scalars are still to be chosen
\* (Leaf) and whose keys are still to be chosen (Hole), with a choice for each.
Leaf == [t |-> "leaf"]
Hole == <<>>

RECURSIVE Shapes(_, _)
RECURSIVE ShapeForests(_, _)
\* The shapes of exactly n nodes whose dicts have at most maxKeys entries.
Shapes(n, maxKeys) ==
    IF n = 1
    THEN {Leaf, ListLit(<<>>), DictLit(<<>>)}
    ELSE {ListLit(f) : f \in ShapeForests(n - 1, maxKeys)}
         \cup {DictLit([i \in 1..Len(f) |-> <<Hole, f[i]>>])
                 : f \in {g \in ShapeForests(n - 1, maxKeys) : Len(g) <= maxKeys}}
\* The sequences of shapes of n nodes in all.
ShapeForests(n, maxKeys) ==
    IF n = 0 THEN {<<>>}
    ELSE UNION {{<<sh>> \o f : sh \in Shapes(i, maxKeys),
                               f \in ShapeForests(n - i, maxKeys)}
                  : i \in 1..n}

RECURSIVE NumLeaves(_)
NumLeaves(sh) ==
    IF sh.t = "leaf" THEN 1
    ELSE IF sh.t = "list"
    THEN IF sh.elems = <<>> THEN 0
         ELSE NumLeaves(sh.elems[1]) + NumLeaves(ListLit(Tail(sh.elems)))
    ELSE IF sh.entries = <<>> THEN 0
         ELSE NumLeaves(sh.entries[1][2]) + NumLeaves(DictLit(Tail(sh.entries)))

RECURSIVE NumHoles(_)
NumHoles(sh) ==
    IF sh.t = "leaf" THEN 0
    ELSE IF sh.t = "list"
    THEN IF sh.elems = <<>> THEN 0
         ELSE NumHoles(sh.elems[1]) + NumHoles(ListLit(Tail(sh.elems)))
    ELSE IF sh.entries = <<>> THEN 0
         ELSE 1 + NumHoles(sh.entries[1][2]) + NumHoles(DictLit(Tail(sh.entries)))

\* Filling shape sh with the scalars ls and the keys keys[ks[1]], keys[ks[2]],
\* ... taken in order: [lit, ls, ks, ok], the literal, the choices left over,
\* and whether every dict lists its keys in the order of keys (so that no
\* dict has a key twice and no dict is built in two ways).
RECURSIVE Fill(_, _, _, _)
RECURSIVE FillAll(_, _, _, _)
Fill(sh, ls, ks, keys) ==
    IF sh.t = "leaf"
    THEN [lit |-> Head(ls), ls |-> Tail(ls), ks |-> ks, ok |-> TRUE]
    ELSE IF sh.t = "list"
    THEN LET r == FillAll(sh.elems, ls, ks, keys)
         IN [lit |-> ListLit(r.lits), ls |-> r.ls, ks |-> r.ks, ok |-> r.ok]
    ELSE LET m == Len(sh.entries)
             r == FillAll([i \in 1..m |-> sh.entries[i][2]], ls,
                          SubSeq(ks, m + 1, Len(ks)), keys)
         IN [lit |-> DictLit([i \in 1..m |-> <<keys[ks[i]], r.lits[i]>>]),
             ls |-> r.ls, ks |-> r.ks,
             ok |-> r.ok /\ \A i \in 1..(m - 1) : ks[i] < ks[i + 1]]
FillAll(shs, ls, ks, keys) ==
    IF shs = <<>> THEN [lits |-> <<>>, ls |-> ls, ks |-> ks, ok |-> TRUE]
    ELSE LET r == Fill(shs[1], ls, ks, keys)
             rest == FillAll(Tail(shs), r.ls, r.ks, keys)
         IN [lits |-> <<r.lit>> \o rest.lits, ls |-> rest.ls, ks |-> rest.ks,
             ok |-> r.ok /\ rest.ok]

\* No filter has been called yet.
NoCall == [op |-> "none"]

\* The state in which the caller holds, freshly built, the values that
\* filling the shapes shs gives, for some choice of scalars and keys.
StartWith(shs, scalars, keys) ==
    \E ll \in [1..NumLeaves(ListLit(shs)) -> scalars] :
      \E kl \in [1..NumHoles(ListLit(shs)) -> 1..Len(keys)] :
        LET f == FillAll(shs, ll, kl, keys)
            r == BuildAll(<<>>, f.lits)
        IN /\ f.ok
           /\ heap = r.h
           /\ inputs = r.vs
           /\ pre = r.h
           /\ call = NoCall

\* The shapes of the mappings of exactly n nodes (their own node included).
MappingShapes(n, maxKeys) == {sh \in Shapes(n, maxKeys) : sh.t = "dict"}

\* The lists of at most MaxLen scalars.
ScalarLists == UNION {{ListLit(f) : f \in [1..n -> MergeScalars]} : n \in 0..MaxLen}

\* The mappings nested at most d levels deep under the key "k", each level
\* holding a number or nothing under "j".
RECURSIVE NestedMappings(_)
NestedMappings(d) ==
    LET js == {<<>>} \cup {<< <<(<<"j">>), v>> >> : v \in {Num(1), Num(2)}}
        ks == {<<>>} \cup {<< <<(<<"k">>), v>> >> : v \in
                  {Null} \cup (IF d = 0 THEN {} ELSE NestedMappings(d - 1))}
    IN {DictLit(j \o k) : j \in js, k \in ks}

\* The state in which the caller holds the freshly built arguments A and B.
Start(A, B) ==
    LET r == BuildAll(<<>>, <<A, B>>)
    IN /\ heap = r.h
       /\ inputs = r.vs
       /\ pre = r.h
       /\ call = NoCall

\* recursive_merge's two arguments, each a mapping:
\*   any two mappings of at most MaxNodes nodes together, or
\*   two lists of scalars under the same key, or
\*   two mappings nested under "k".
Init ==
    \/ \E na \in 1..(MaxNodes - 1) :
         \E nb \in 1..(MaxNodes - na) :
           \E A \in MappingShapes(na, Len(MergeKeys)),
              B \in MappingShapes(nb, Len(MergeKeys)) :
             StartWith(<<A, B>>, MergeScalars, MergeKeys)
    \/ \E x \in ScalarLists, y \in ScalarLists :
         Start(DictLit(<< <<(<<"k">>), x>> >>), DictLit(<< <<(<<"k">>), y>> >>))
    \/ \E A \in NestedMappings(MaxDepth), B \in NestedMappings(MaxDepth) : Start(A, B)

\* base | merge_dicts(overlay)
Merge ==
    /\ call = NoCall
    /\ \E o \in recursive_merge(heap, inputs[1], inputs[2]) :
         /\ heap' = o.h
         /\ call' = [op |-> "merge", base |-> inputs[1], overlay |-> inputs[2],
                     ok |-> o.ok, ret |-> o.ret]
    /\ pre' = heap
    /\ UNCHANGED inputs

Next == Merge

Spec == Init /\ [][Next]_vars

\* Several merges into one base, as in
\*   base | merge_dicts(first) | merge_dicts(second):
\* the filter returns dict1, which the next call takes as its base.

\* What the mappings hold under "k": scalars, lists with and without
\* repeats, a list in a list, mappings holding a scalar, a list or a mapping
\* under "j".
SeriesValues ==
    { Null, Num(1), Num(2), Str(<<"a", "b">>),
      ListLit(<<>>), ListLit(<<Num(1)>>), ListLit(<<Num(2), Num(2)>>),
      ListLit(<<Num(1), Num(2)>>), ListLit(<<ListLit(<<Num(1)>>)>>),
      DictLit(<<>>),
      DictLit(<< <<(<<"j">>), Num(1)>> >>),
      DictLit(<< <<(<<"j">>), Num(2)>> >>),
      DictLit(<< <<(<<"j">>), ListLit(<<Num(1)>>)>> >>),
      DictLit(<< <<(<<"j">>), ListLit(<<Num(2), Num(2)>>)>> >>),
      DictLit(<< <<(<<"j">>), DictLit(<<>>)>> >>) }

\* The entries under "k": none, or one of these values.
SeriesEntriesK == {<<>>} \cup {<< <<(<<"k">>), v>> >> : v \in SeriesValues}
\* The entries under "j": none, or a list of one number.
SeriesEntriesJ == {<<>>} \cup {<< <<(<<"j">>), ListLit(<<Num(n)>>)>> >> : n \in {1, 2}}

\* The state in which the caller holds the freshly built base and the
\* overlays of the series.
StartSeries(A, B, C) ==
    LET r == BuildAll(<<>>, <<A, B, C>>)
    IN /\ heap = r.h
       /\ inputs = r.vs
       /\ pre = r.h
       /\ call = NoCall

\* A base and two overlays, each a mapping:
\*   any three mappings of at most MaxSeriesNodes nodes together, or
\*   mappings with a list under "j" and any of SeriesValues under "k".
InitSeries ==
    \/ \E na \in 1..(MaxSeriesNodes - 2) :
         \E nb \in 1..(MaxSeriesNodes - na - 1) :
           \E nc \in 1..(MaxSeriesNodes - na - nb) :
             \E A \in MappingShapes(na, Len(MergeKeys)),
                B \in MappingShapes(nb, Len(MergeKeys)),
                C \in MappingShapes(nc, Len(MergeKeys)) :
               StartWith(<<A, B, C>>, MergeScalars, MergeKeys)
    \/ \E ja \in SeriesEntriesJ, ka \in SeriesEntriesK,
          jb \in SeriesEntriesJ, kb \in SeriesEntriesK, kc \in SeriesEntriesK :
         StartSeries(DictLit(ja \o ka), DictLit(jb \o kb), DictLit(kc))

\* base | merge_dicts(first)
MergeFirst ==
    /\ call = NoCall
    /\ \E o \in recursive_merge(heap, inputs[1], inputs[2]) :
         /\ heap' = o.h
         /\ call' = [op |-> "first", base |-> inputs[1], overlay |-> inputs[2],
                     ok |-> o.ok, ret |-> o.ret, start |-> heap]
    /\ pre' = heap
    /\ UNCHANGED inputs

\* ... | merge_dicts(second): the base is what the first merge returned,
\* the overlay is the first overlay again or another one.
MergeNext ==
    /\ call.op = "first"
    /\ call.ok
    /\ \E i \in {2, 3} :
         \E o \in recursive_merge(heap, call.ret, inputs[i]) :
           /\ heap' = o.h
           /\ call' = [op |-> "next", base |-> call.ret, overlay |-> inputs[i],
                       ok |-> o.ok, ret |-> o.ret, start |-> call.start]
    /\ pre' = heap
    /\ UNCHANGED inputs

NextSeries == MergeFirst \/ MergeNext

SpecSeries == InitSeries /\ [][NextSeries]_vars


\* The scalars of the stripper's inputs.
StripScalars == {Null, Str(<<"a", "b">>)}
\* The keys of the stripper's inputs: the status keys of a task result,
\* "ansible_facts" and a data key.
StripKeys ==
    << <<"a", "n", "s", "i", "b", "l", "e", "_", "f", "a", "c", "t", "s">>,
       <<"c", "h", "a", "n", "g", "e", "d">>,
       <<"f", "a", "i", "l", "e", "d">>,
       <<"f", "a", "i", "l", "e", "d", "_", "c", "o", "n", "d", "i", "t", "i", "o", "n">>,
       <<"f", "a", "l", "s", "e", "_", "c", "o", "n", "d", "i", "t", "i", "o", "n">>,
       <<"s", "k", "i", "p", "_", "r", "e", "a", "s", "o", "n">>,
       <<"s", "k", "i", "p", "p", "e", "d">>,
       <<"v">> >>

\* strip_metadata's argument: a Node of at most MaxStripNodes nodes.
InitStrip ==
    \E n \in 1..MaxStripNodes :
      \E x \in Shapes(n, Len(StripKeys)) :
        StartWith(<<x>>, StripScalars, StripKeys)

\* data | strip_metadata
Strip ==
    /\ call = NoCall
    /\ LET r == strip_metadata(heap, inputs[1])
       IN /\ heap' = r.h
          /\ call' = [op |-> "strip", data |-> inputs[1], ok |-> TRUE, ret |-> r.v]
    /\ pre' = heap
    /\ UNCHANGED inputs

NextStrip == Strip

SpecStrip == InitStrip /\ [][NextStrip]_vars

\* The scalars of the combiner's inputs.
CombineScalars == {Null, Num(1)}
\* The keys of the combiner's inputs: the status keys of a task result,
\* "ansible_facts", a key with the prefix "ansible_", one just short of it,
\* and two data keys.
CombineKeys ==
    << <<"a", "n", "s", "i", "b", "l", "e">>,
       <<"a", "n", "s", "i", "b", "l", "e", "_", "f", "a", "c", "t", "s">>,
       <<"a", "n", "s", "i", "b", "l", "e", "_", "x">>,
       <<"c", "h", "a", "n", "g", "e", "d">>,
       <<"f", "a", "i", "l", "e", "d">>,
       <<"f", "a", "i", "l", "e", "d", "_", "c", "o", "n", "d", "i", "t", "i", "o", "n">>,
       <<"f", "a", "l", "s", "e", "_", "c", "o", "n", "d", "i", "t", "i", "o", "n">>,
       <<"s", "k", "i", "p", "_", "r", "e", "a", "s", "o", "n">>,
       <<"s", "k", "i", "p", "p", "e", "d">>,
       <<"v">>,
       <<"w">> >>

\* Two sources holding a mapping each under the same data key.
CollidingSources ==
    LET inner == {DictLit(<<>>),
                  DictLit(<< <<(<<"w">>), Num(1)>> >>),
                  DictLit(<< <<(<<"c", "h", "a", "n", "g", "e", "d">>), Num(1)>> >>)}
    IN {<<DictLit(<< <<(<<"v">>), x>> >>), DictLit(<< <<(<<"v">>), y>> >>)>>
          : x \in inner, y \in inner}

\* What is not a mapping, as an argument.
NonMappings == <<Null, Str(<<"a", "b">>), ListLit(<<>>)>>

\* The sequences of at most MaxSources arguments, the i-th either a mapping
\* holding the number i under one key (a choice among CombineKeys), or not
\* a mapping (a choice among NonMappings).
FlatSources ==
    UNION {[1..n -> 1..(Len(CombineKeys) + Len(NonMappings))] : n \in 1..MaxSources}

\* The argument that the choice c stands for at place i.
FlatSource(c, i) ==
    IF c > Len(CombineKeys) THEN NonMappings[c - Len(CombineKeys)]
    ELSE DictLit(<< <<CombineKeys[c], Num(i)>> >>)

\* The state in which the caller holds the freshly built arguments args.
StartCombine(args) ==
    LET r == BuildAll(<<>>, args)
    IN /\ heap = r.h
       /\ inputs = r.vs
       /\ pre = r.h
       /\ call = NoCall

\* combine_info's arguments:
\*   any Nodes of at most MaxCombineNodes nodes together (none at all
\*   included), or
\*   two sources colliding on a mapping, or
\*   at most MaxSources sources of one key each, or no mapping at all.
InitCombine ==
    \/ \E n \in 0..MaxCombineNodes :
         \E f \in ShapeForests(n, Len(CombineKeys)) :
           StartWith(f, CombineScalars, CombineKeys)
    \/ \E args \in CollidingSources : StartCombine(args)
    \/ \E cs \in FlatSources :
         StartCombine([i \in 1..Len(cs) |-> FlatSource(cs[i], i)])

\* a | combine_info(b, c, ...)
Combine ==
    /\ call = NoCall
    /\ \E o \in combine_info(heap, inputs) :
         /\ heap' = o.h
         /\ call' = [op |-> "combine", args |-> inputs, ok |-> TRUE, ret |-> o.v]
    /\ pre' = heap
    /\ UNCHANGED inputs

\* source | strip_metadata, for one of the sources
StripSource ==
    /\ call = NoCall
    /\ \E i \in 1..Len(inputs) :
         LET r == strip_metadata(heap, inputs[i])
         IN /\ heap' = r.h
            /\ call' = [op |-> "strip", data |-> inputs[i], ok |-> TRUE, ret |-> r.v]
    /\ pre' = heap
    /\ UNCHANGED inputs

NextCombine == Combine \/ StripSource

SpecCombine == InitCombine /\ [][NextCombine]_vars

\* The pipeline combine_info(source) | merge_dicts(overlay): the record the
\* Combiner builds is the base of a merge.

\* What source and overlay hold under "v": a scalar, lists, mappings.
PipelineValues ==
    { Num(1), ListLit(<<>>), ListLit(<<Num(1)>>), ListLit(<<Num(2)>>),
      DictLit(<<>>),
      DictLit(<< <<(<<"v">>), Num(1)>> >>),
      DictLit(<< <<(<<"w">>), ListLit(<<Num(1)>>)>> >>) }

\* The entries under "v": none, or one of these values.
PipelineEntriesV == {<<>>} \cup {<< <<(<<"v">>), x>> >> : x \in PipelineValues}

\* The entries under one other key, kept by combine_info or not: none, or a
\* list or a mapping.
PipelineEntriesOther ==
    {<<>>} \cup {<< <<key, x>> >>
                   : key \in { <<"a", "n", "s", "i", "b", "l", "e", "_", "x">>, <<"c", "h", "a", "n", "g", "e", "d">>, <<"w">> },
                     x \in { ListLit(<<Num(1)>>), ListLit(<<Num(2)>>),
                              DictLit(<< <<(<<"v">>), Num(1)>> >>) }}

\* The state in which the caller holds the freshly built source and overlay.
StartPipeline(S, O) ==
    LET r == BuildAll(<<>>, <<S, O>>)
    IN /\ heap = r.h
       /\ inputs = r.vs
       /\ pre = r.h
       /\ call = NoCall

\* A source and an overlay, each a mapping:
\*   any two mappings of at most MaxCombineNodes nodes together, or
\*   mappings with any of PipelineValues under "v" and a container under
\*   one other key.
InitPipeline ==
    \/ \E ns \in 1..(MaxCombineNodes - 1) :
         \E no \in 1..(MaxCombineNodes - ns) :
           \E S \in MappingShapes(ns, Len(CombineKeys)),
              O \in MappingShapes(no, Len(CombineKeys)) :
             StartWith(<<S, O>>, CombineScalars, CombineKeys)
    \/ \E sv \in PipelineEntriesV, so \in PipelineEntriesOther,
          ov \in PipelineEntriesV, oo \in PipelineEntriesOther :
         StartPipeline(DictLit(so \o sv), DictLit(oo \o ov))

\* source | combine_info
CombineSource ==
    /\ call = NoCall
    /\ \E r \in combine_info(heap, <<inputs[1]>>) :
         /\ heap' = r.h
         /\ call' = [op |-> "combined", args |-> <<inputs[1]>>, ok |-> TRUE,
                     ret |-> r.v, start |-> heap]
    /\ pre' = heap
    /\ UNCHANGED inputs

\* ... | merge_dicts(overlay): the base is what combine_info returned.
MergeOverlay ==
    /\ call.op = "combined"
    /\ \E o \in recursive_merge(heap, call.ret, inputs[2]) :
         /\ heap' = o.h
         /\ call' = [op |-> "merged", base |-> call.ret, overlay |-> inputs[2],
                     ok |-> o.ok, ret |-> o.ret, start |-> call.start]
    /\ pre' = heap
    /\ UNCHANGED inputs

NextPipeline == CombineSource \/ MergeOverlay

SpecPipeline == InitPipeline /\ [][NextPipeline]_vars

\* The scalars of the extractor's inputs.
ExtractScalars == {Null, Num(1), Str(<<"i", "d">>)}
\* The keys of the extractor's inputs.
ExtractKeys == << <<"i", "d">>, <<"n", "a", "m", "e">>, <<"o", "b", "j", "e", "c", "t", "s">> >>
\* The keys asked for.
AskedKeys == {Str(<<"i", "d">>), Str(<<"n", "a", "m", "e">>)}

\* What the sequence under "objects" may hold: records with and without
\* the keys asked for, and what is no record.
Records ==
    { DictLit(<<>>),
      DictLit(<< <<<<"i", "d">>, Num(1)>> >>),
      DictLit(<< <<<<"i", "d">>, Num(2)>> >>),
      DictLit(<< <<<<"i", "d">>, Null>> >>),
      DictLit(<< <<<<"n", "a", "m", "e">>, Str(<<"x">>)>> >>),
      DictLit(<< <<<<"i", "d">>, Num(1)>>, <<<<"n", "a", "m", "e">>, Str(<<"x">>)>> >>),
      Null, Num(1), Str(<<"i", "d">>), Str(<<"x">>),
      ListLit(<<>>), ListLit(<<Str(<<"i", "d">>)>>) }

\* The sequences of at most MaxObjects of them.
RecordLists == UNION {[1..n -> Records] : n \in 0..MaxObjects}

\* extract_key's arguments: the key asked for, and as data
\*   any Node of at most MaxExtractNodes nodes, or
\*   a mapping holding a sequence under "objects".
InitExtract ==
    \E key \in AskedKeys :
      \/ \E n \in 1..MaxExtractNodes :
           \E x \in Shapes(n, Len(ExtractKeys)) :
             \E ll \in [1..NumLeaves(x) -> ExtractScalars] :
               \E kl \in [1..NumHoles(x) -> 1..Len(ExtractKeys)] :
                 LET f == Fill(x, ll, kl, ExtractKeys)
                     r == Build(<<>>, f.lit)
                 IN /\ f.ok
                    /\ heap = r.h
                    /\ inputs = <<r.v, key>>
                    /\ pre = r.h
                    /\ call = NoCall
      \/ \E recs \in RecordLists :
           LET r == Build(<<>>, DictLit(<< <<objects_key, ListLit(recs)>> >>))
           IN /\ heap = r.h
              /\ inputs = <<r.v, key>>
              /\ pre = r.h
              /\ call = NoCall

\* data | extract_key(key)
Extract ==
    /\ call = NoCall
    /\ LET o == extract_key(heap, inputs[1], inputs[2])
       IN /\ heap' = o.h
          /\ call' = [op |-> "extract", data |-> inputs[1], key |-> inputs[2],
                      ok |-> o.ok, ret |-> o.ret, err |-> o.err]
    /\ pre' = heap
    /\ UNCHANGED inputs

NextExtract == Extract

SpecExtract == InitExtract /\ [][NextExtract]_vars

\* The obfuscator's strings are made of at most MaxPieces of these pieces:
\* the prefix of a GPU UUID and a part of it, characters that continue a
\* UUID, a character that ends one, the mask itself, and the head of a
\* home directory.
ObfPieces ==
    << <<"G", "P", "U", "-">>,
       <<"G", "P">>,
       <<"a", "1">>,
       <<"-">>,
       <<"/">>,
       <<"X", "X", "X", "X", "X", "X">>,
       <<"/", "h", "o", "m", "e", "/">> >>

RECURSIVE Flatten(_)
Flatten(ss) == IF ss = <<>> THEN <<>> ELSE ss[1] \o Flatten(Tail(ss))

ObfStrings ==
    {Flatten([i \in 1..Len(f) |-> ObfPieces[f[i]]])
       : f \in UNION {[1..n -> 1..Len(ObfPieces)] : n \in 0..MaxPieces}}

\* The keys a string is stored under: the sensitive keys in some letter
\* case, "path", and a key that no rule names.
ObfKeys ==
    { <<"H", "o", "s", "t", "N", "a", "m", "e">>,
      <<"U", "S", "E", "R">>,
      <<"p", "a", "t", "h">>,
      <<"u", "s", "e", "r", "_", "i", "d">>,
      <<"u", "s", "e", "r", "n", "a", "m", "e">>,
      <<"u", "u", "i", "d">>,
      <<"w", "a", "n", "_", "a", "d", "d", "r", "e", "s", "s">> }
\* The keys a container is stored under.
OuterKeys == { <<"u", "u", "i", "d">>, <<"u", "s", "e", "r", "n", "a", "m", "e">> }

Under(key, lit) == DictLit(<< <<key, lit>> >>)

\* The mapping terms that hold the string s once: under a key, as an
\* element of a sequence, of a sequence in a sequence, in a mapping in a
\* mapping, in a mapping in a sequence.
TermsHolding(s) ==
    {Under(key, Str(s)) : key \in ObfKeys}
    \cup {Under(key, ListLit(<<Str(s)>>)) : key \in ObfKeys}
    \cup {Under(key, ListLit(<<ListLit(<<Str(s)>>)>>)) : key \in ObfKeys}
    \cup {Under(outer, Under(key, Str(s))) : outer \in OuterKeys, key \in ObfKeys}
    \cup {Under(outer, ListLit(<<Under(key, Str(s))>>)) : outer \in OuterKeys, key \in ObfKeys}

\* The pieces of the paths: the head of a home directory, a directory
\* called home, a name, a slash.
PathPieces ==
    << <<"/", "h", "o", "m", "e", "/">>,
       <<"h", "o", "m", "e", "/">>,
       <<"a", "1">>,
       <<"/">> >>

PathStrings ==
    {Flatten([i \in 1..Len(f) |-> PathPieces[f[i]]])
       : f \in UNION {[1..n -> 1..Len(PathPieces)] : n \in 0..MaxPieces}}

\* The keys a path is stored under: "path", the same capitalised, and a
\* key that no rule names.
PathKeys == { <<"p", "a", "t", "h">>, <<"P", "a", "t", "h">>, <<"u", "u", "i", "d">> }

\* A string with a GPU UUID in it.
UuidString == Str(GpuPrefix \o <<"a", "1">>)

\* Terms of every kind: scalars, sequences (one holding a mapping with a
\* sensitive key), mappings.
TermChoices ==
    << Null, Num(1), UuidString,
       ListLit(<<UuidString>>),
       ListLit(<<Under(<<"u", "s", "e", "r", "n", "a", "m", "e">>, UuidString)>>),
       Under(<<"u", "s", "e", "r", "n", "a", "m", "e">>, UuidString),
       Under(<<"u", "u", "i", "d">>, UuidString) >>

TermLists ==
    {ListLit([i \in 1..Len(f) |-> TermChoices[f[i]]])
       : f \in UNION {[1..n -> 1..Len(TermChoices)] : n \in 0..MaxTerms}}

\* The scalars that are no strings.
ObfScalars == {Null, Bool(TRUE), Bool(FALSE), Num(0), Num(1)}

\* The keys a scalar is stored under: the keys of the strings, and "user"
\* and "hostname" as the rule spells them.
ScalarKeys == ObfKeys \cup { <<"u", "s", "e", "r">>, <<"h", "o", "s", "t", "n", "a", "m", "e">> }

\* The mapping terms that hold the scalar v under key: by itself, next to
\* a string under another key, in a mapping in a mapping, in a mapping in
\* a sequence.
TermsHoldingScalar(key, v) ==
    {Under(key, v),
     DictLit(<< <<<<"n", "a", "m", "e">>, UuidString>>, <<key, v>> >>),
     Under(<<"u", "s", "e", "r", "n", "a", "m", "e">>, Under(key, v)),
     Under(<<"u", "u", "i", "d">>, ListLit(<<Under(key, v)>>))}

\* The state in which the caller holds the freshly built argument terms.
StartObfuscate(terms) ==
    LET r == Build(<<>>, terms)
    IN /\ heap = r.h
       /\ inputs = <<r.v>>
       /\ pre = r.h
       /\ call = NoCall

\* The lookup's argument:
\*   a mapping term by itself, or a list of a string and a mapping term, or
\*   a mapping term holding a path, or
\*   a list of at most MaxTerms terms, mappings or not, or one of them
\*   by itself, or
\*   a mapping term holding a scalar that is no string.
InitObfuscate ==
    \/ \E s \in ObfStrings :
         \E term \in TermsHolding(s) :
           \E terms \in {term, ListLit(<<Str(s), term>>)} :
             LET r == Build(<<>>, terms)
             IN /\ heap = r.h
                /\ inputs = <<r.v>>
                /\ pre = r.h
                /\ call = NoCall
    \/ \E s \in PathStrings, key \in PathKeys : StartObfuscate(Under(key, Str(s)))
    \/ \E terms \in TermLists \cup SeqRange(TermChoices) : StartObfuscate(terms)
    \/ \E key \in ScalarKeys, v \in ObfScalars :
         \E term \in TermsHoldingScalar(key, v) : StartObfuscate(term)

\* lookup('obfuscate', terms)
Obfuscate ==
    /\ call = NoCall
    /\ LET r == run(heap, inputs[1])
       IN /\ heap' = r.h
          /\ call' = [op |-> "obfuscate", terms |-> inputs[1], ok |-> TRUE, ret |-> r.v]
    /\ pre' = heap
    /\ UNCHANGED inputs

NextObfuscate == Obfuscate

SpecObfuscate == InitObfuscate /\ [][NextObfuscate]_vars

---------------------------------------------------------------------------
(* What the claims speak of.                                               *)

\* The value v stands for in heap h, as a literal: what the caller would see
\* printing it.  Two values with the same snapshot are equal in every part.
RECURSIVE Snap(_, _)
Snap(h, v) ==
    IF ~IsRef(v) THEN v
    ELSE IF h[v.a].kind = "list"
    THEN ListLit([i \in 1..Len(h[v.a].elems) |-> Snap(h, h[v.a].elems[i])])
    ELSE DictLit([i \in 1..Len(h[v.a].entries) |->
                    <<h[v.a].entries[i][1], Snap(h, h[v.a].entries[i][2])>>])

IsScalar(v) == v.t \in {"null", "bool", "num", "str"}

KeySet(h, v) == SeqRange(DictKeys(h[v.a]))
Item(h, v, key) == GetItem(h[v.a], key)

MergeCalled == call.op = "merge"
MergeReturned == MergeCalled /\ call.ok
\* The keys of base and overlay as the call found them.
BaseKeys == KeySet(pre, call.base)
OverlayKeys == KeySet(pre, call.overlay)
BothKeys == BaseKeys \cap OverlayKeys

---------------------------------------------------------------------------
(* Recursive Merger: the claims.                                           *)

\* The value under key in the result, and in base and overlay as they were.
Merged(key) == Item(heap, call.ret, key)
InBase(key) == Item(pre, call.base, key)
InOverlay(key) == Item(pre, call.overlay, key)

\* C1: when recursive_merge(A, B) returns, the result's top-level keys are
\* exactly keys(A) \cup keys(B); a key only A had holds A's value, the same
\* object with the same content, and a key only B had holds B's value.
MergeKeepsEveryKey ==
    MergeReturned =>
        /\ KeySet(heap, call.ret) = BaseKeys \cup OverlayKeys
        /\ \A key \in BaseKeys \ OverlayKeys :
               /\ Merged(key) = InBase(key)
               /\ Snap(heap, Merged(key)) = Snap(pre, InBase(key))
        /\ \A key \in OverlayKeys \ BaseKeys :
               /\ Merged(key) = InOverlay(key)
               /\ Snap(heap, Merged(key)) = Snap(pre, InOverlay(key))

\* A merge returned whose operands each had a key the other lacked.
MergeOfDisjointKeys ==
    /\ MergeReturned
    /\ BaseKeys \ OverlayKeys # {}
    /\ OverlayKeys \ BaseKeys # {}

\* C2: when recursive_merge(base, overlay) returns, every key both operands
\* held a scalar under (Null, Bool, Number or String) holds overlay's scalar.
MergeScalarOverlayWins ==
    MergeReturned =>
        \A key \in BothKeys :
            IsScalar(InBase(key)) /\ IsScalar(InOverlay(key))
                => Merged(key) = InOverlay(key)

\* A merge returned that replaced base's scalar by a different scalar of overlay's.
MergeOfDifferingScalars ==
    /\ MergeReturned
    /\ \E key \in BothKeys :
           /\ IsScalar(InBase(key)) /\ IsScalar(InOverlay(key))
           /\ InBase(key) # InOverlay(key)

\* Exactly one of x, y is a string and the other a list.
StringAgainstList(h, x, y) ==
    \/ IsStr(x) /\ IsList(h, y)
    \/ IsList(h, x) /\ IsStr(y)

\* C3: when recursive_merge returns, every key under which one operand held
\* a string and the other a list holds overlay's value unchanged: a string
\* is never taken apart into its characters.
MergeStringNeverACollection ==
    MergeReturned =>
        \A key \in BothKeys :
            StringAgainstList(pre, InBase(key), InOverlay(key))
                => Snap(heap, Merged(key)) = Snap(pre, InOverlay(key))

\* One of x, y is a mapping and the other a list.
MappingAgainstList(h, x, y) ==
    \/ IsMapping(h, x) /\ IsList(h, y)
    \/ IsList(h, x) /\ IsMapping(h, y)

\* C4: when recursive_merge returns, every key under which one operand held
\* a mapping and the other a list holds overlay's value unchanged, never a
\* union of the mapping's keys with the list's elements.
MergeMismatchOverlayWins ==
    MergeReturned =>
        \A key \in BothKeys :
            MappingAgainstList(pre, InBase(key), InOverlay(key))
                => Snap(heap, Merged(key)) = Snap(pre, InOverlay(key))

\* C5: recursive_merge of two mappings of Nodes never raises.
MergeNeverRaises == MergeCalled => call.ok

\* The elements of the list v names in heap h.
Elems(h, v) == h[v.a].elems
BothLists(key) == IsList(pre, InBase(key)) /\ IsList(pre, InOverlay(key))

\* The elements of overlay's list under key that equal no element of base's.
NewInOverlay(key) ==
    SelectSeq(Elems(pre, InOverlay(key)),
              LAMBDA v : \A i \in 1..Len(Elems(pre, InBase(key))) :
                             ~PyEq(pre, v, Elems(pre, InBase(key))[i]))

\* C6: when recursive_merge returns, every key both operands held a list
\* under holds base's list, now base's original elements in their order
\* followed by the elements of overlay's list that equal none of them, in
\* overlay's order.
MergeListAppendsNew ==
    MergeReturned =>
        \A key \in BothKeys :
            BothLists(key) =>
                /\ Merged(key) = InBase(key)
                /\ LET want == Elems(pre, InBase(key)) \o NewInOverlay(key)
                   IN Snap(heap, Merged(key))
                          = ListLit([i \in 1..Len(want) |-> Snap(pre, want[i])])

\* A merge of a non-empty list with a list that holds an element of it and
\* an element that is new.
MergeOfOverlappingLists ==
    /\ MergeReturned
    /\ \E key \in BothKeys :
           /\ BothLists(key)
           /\ Elems(pre, InBase(key)) # <<>>
           /\ Len(NewInOverlay(key)) < Len(Elems(pre, InOverlay(key)))
           /\ NewInOverlay(key) # <<>>

\* No two elements of the sequence are equal.
NoRepeat(h, seq) ==
    \A i, j \in 1..Len(seq) : i # j => ~PyEq(h, seq[i], seq[j])

\* C7 as claimed: when recursive_merge returns, every key both operands
\* held a list under, base's without a repeated element, holds a list
\* without a repeated element, whatever overlay's list is.
MergeListNeverRepeats ==
    MergeReturned =>
        \A key \in BothKeys :
            BothLists(key) /\ NoRepeat(pre, Elems(pre, InBase(key)))
                => NoRepeat(heap, Elems(heap, Merged(key)))

\* C7 as amended: the same, for an overlay list that does not repeat an
\* element absent from base's list.
MergeListRepeatsOnlyOverlays ==
    MergeReturned =>
        \A key \in BothKeys :
            /\ BothLists(key)
            /\ NoRepeat(pre, Elems(pre, InBase(key)))
            /\ NoRepeat(pre, NewInOverlay(key))
            => NoRepeat(heap, Elems(heap, Merged(key)))

\* A merge of a non-empty list without repetition with a list that repeats
\* one of its elements.
MergeOfListRepeatingBase ==
    /\ MergeReturned
    /\ \E key \in BothKeys :
           /\ BothLists(key)
           /\ Elems(pre, InBase(key)) # <<>>
           /\ NoRepeat(pre, Elems(pre, InBase(key)))
           /\ ~NoRepeat(pre, Elems(pre, InOverlay(key)))
           /\ NewInOverlay(key) = <<>>

\* Base's mapping b, merged with overlay's mapping o, is as the rules say,
\* at this level and at every level below.
RECURSIVE MergedByTheRules(_, _)
MergedByTheRules(b, o) ==
    /\ KeySet(heap, b) = KeySet(pre, b) \cup KeySet(pre, o)
    /\ \A key \in KeySet(pre, b) \ KeySet(pre, o) :
           Snap(heap, Item(heap, b, key)) = Snap(pre, Item(pre, b, key))
    /\ \A key \in KeySet(pre, o) \ KeySet(pre, b) :
           Snap(heap, Item(heap, b, key)) = Snap(pre, Item(pre, o, key))
    /\ \A key \in KeySet(pre, b) \cap KeySet(pre, o) :
           LET x == Item(pre, b, key)
               y == Item(pre, o, key)
           IN /\ IsMapping(pre, x) /\ IsMapping(pre, y)
                  => Item(heap, b, key) = x /\ MergedByTheRules(x, y)
              /\ IsScalar(x) /\ IsScalar(y) => Item(heap, b, key) = y
              /\ IsList(pre, x) /\ IsList(pre, y)
                  => /\ Item(heap, b, key) = x
                     /\ \A i \in 1..Len(Elems(pre, x)) :
                            Snap(heap, Elems(heap, x)[i]) = Snap(pre, Elems(pre, x)[i])
                     /\ \A i \in 1..Len(Elems(pre, y)) :
                            PyIn(heap, Elems(pre, y)[i], Elems(heap, x))

BothMappings(key) == IsMapping(pre, InBase(key)) /\ IsMapping(pre, InOverlay(key))

\* C8: when recursive_merge returns, every key both operands held a mapping
\* under holds base's mapping, merged with overlay's as a call of
\* recursive_merge on the two would merge them: its own keys kept with their
\* values, overlay's added, colliding keys settled by the same rules at
\* every depth.
MergeRecursesIntoMappings ==
    MergeReturned =>
        \A key \in BothKeys :
            BothMappings(key) =>
                /\ Merged(key) = InBase(key)
                /\ MergedByTheRules(InBase(key), InOverlay(key))
                /\ \E o \in recursive_merge(pre, InBase(key), InOverlay(key)) :
                       o.ok /\ Snap(heap, Merged(key)) = Snap(o.h, o.ret)

\* A merge of mappings two levels deep: under a shared key, base's mapping
\* has a key overlay's lacks, and a mapping that overlay's mapping adds a
\* key to.
MergeOfNestedMappings ==
    /\ MergeReturned
    /\ \E key \in BothKeys :
           /\ BothMappings(key)
           /\ KeySet(pre, InBase(key)) \ KeySet(pre, InOverlay(key)) # {}
           /\ \E inner \in KeySet(pre, InBase(key)) \cap KeySet(pre, InOverlay(key)) :
                  LET x == Item(pre, InBase(key), inner)
                      y == Item(pre, InOverlay(key), inner)
                  IN /\ IsMapping(pre, x) /\ IsMapping(pre, y)
                     /\ KeySet(pre, y) \ KeySet(pre, x) # {}

\* The addresses of the objects reachable from value v in heap h.
RECURSIVE Reach(_, _)
Reach(h, v) ==
    IF ~IsRef(v) THEN {}
    ELSE {v.a} \cup
         (IF h[v.a].kind = "list"
          THEN UNION {Reach(h, h[v.a].elems[i]) : i \in 1..Len(h[v.a].elems)}
          ELSE UNION {Reach(h, h[v.a].entries[i][2]) : i \in 1..Len(h[v.a].entries)})

\* C9: recursive_merge(base, overlay) returns the very object passed as
\* base, and a call, however it ends, leaves overlay and every object
\* reachable from overlay as it was.
MergeReturnsBaseLeavesOverlay ==
    /\ MergeReturned => call.ret = call.base
    /\ MergeCalled =>
           /\ \A a \in Reach(pre, call.overlay) : heap[a] = pre[a]
           /\ Snap(heap, call.overlay) = Snap(pre, call.overlay)

\* A merge that changed a mapping nested in base, taking a container of
\* overlay's into it.
MergeMutatingBase ==
    /\ MergeReturned
    /\ Snap(heap, call.base) # Snap(pre, call.base)
    /\ \E key \in BothKeys :
           /\ BothMappings(key)
           /\ Snap(heap, InBase(key)) # Snap(pre, InBase(key))
           /\ \E inner \in KeySet(pre, InOverlay(key)) \ KeySet(pre, InBase(key)) :
                  IsRef(Item(pre, InOverlay(key), inner))

---------------------------------------------------------------------------
(* Metadata Stripper: the claims.                                          *)

StripCalled == call.op = "strip"

\* The keys the stripper is to remove.
StatusKeys ==
    { <<"f", "a", "i", "l", "e", "d">>,
      <<"f", "a", "i", "l", "e", "d", "_", "c", "o", "n", "d", "i", "t", "i", "o", "n">>,
      <<"s", "k", "i", "p", "p", "e", "d">>,
      <<"s", "k", "i", "p", "_", "r", "e", "a", "s", "o", "n">>,
      <<"c", "h", "a", "n", "g", "e", "d">>,
      <<"f", "a", "l", "s", "e", "_", "c", "o", "n", "d", "i", "t", "i", "o", "n">> }

\* The mappings among the objects reachable from v in heap h.
MappingsIn(h, v) == {a \in Reach(h, v) : h[a].kind = "dict"}

\* C10: strip_metadata(x) holds none of the keys failed, failed_condition,
\* skipped, skip_reason, changed, false_condition in any mapping at any
\* depth, mappings inside sequences and sequences inside sequences included.
StripLeavesNoStatusKey ==
    StripCalled =>
        \A a \in MappingsIn(heap, call.ret) :
            SeqRange(DictKeys(heap[a])) \cap StatusKeys = {}

\* A value stripped that held a status key in a mapping inside a sequence
\* inside a sequence.
StripOfStatusKeyInNestedSequences ==
    /\ StripCalled
    /\ \E outer \in Reach(pre, call.data) :
           /\ pre[outer].kind = "list"
           /\ \E i \in 1..Len(pre[outer].elems) :
                  LET mid == pre[outer].elems[i]
                  IN /\ IsList(pre, mid)
                     /\ \E j \in 1..Len(Elems(pre, mid)) :
                            LET m == Elems(pre, mid)[j]
                            IN /\ IsMapping(pre, m)
                               /\ KeySet(pre, m) \cap StatusKeys # {}

\* Whether y, in heap g, has the shape of x, in heap h, less the status
\* keys: a mapping for a mapping, holding exactly x's other keys, each with
\* the like of x's value; a sequence for a sequence, as long, each element
\* the like of x's at its place; the same scalar for a scalar.
RECURSIVE ShapeKept(_, _, _, _)
ShapeKept(h, x, g, y) ==
    IF IsMapping(h, x)
    THEN /\ IsMapping(g, y)
         /\ KeySet(g, y) = KeySet(h, x) \ StatusKeys
         /\ \A key \in KeySet(g, y) :
                ShapeKept(h, Item(h, x, key), g, Item(g, y, key))
    ELSE IF IsList(h, x)
    THEN /\ IsList(g, y)
         /\ Len(Elems(g, y)) = Len(Elems(h, x))
         /\ \A i \in 1..Len(Elems(h, x)) :
                ShapeKept(h, Elems(h, x)[i], g, Elems(g, y)[i])
    ELSE y = x

\* Whether a mapping at any depth of v holds a status key.
HoldsStatusKey(h, v) ==
    \E a \in MappingsIn(h, v) : SeqRange(DictKeys(h[a])) \cap StatusKeys # {}

\* C11: strip_metadata(x) has the shape of x: a mapping gives a mapping of
\* exactly its keys that are not status keys, a sequence gives a sequence of
\* the same length in the same order, a scalar or null gives itself; and
\* when x holds no status key at any depth, strip_metadata(x) equals x.
StripKeepsShape ==
    StripCalled =>
        /\ ShapeKept(pre, call.data, heap, call.ret)
        /\ ~HoldsStatusKey(pre, call.data)
               => Snap(heap, call.ret) = Snap(pre, call.data)

\* A sequence stripped whose first element is a mapping holding a status
\* key and whose second element is something else.
StripOfSequenceOfMappings ==
    /\ StripCalled
    /\ IsList(pre, call.data)
    /\ Len(Elems(pre, call.data)) >= 2
    /\ LET first == Elems(pre, call.data)[1]
       IN /\ IsMapping(pre, first)
          /\ KeySet(pre, first) \cap StatusKeys # {}
          /\ Snap(pre, Elems(pre, call.data)[2]) # Snap(pre, first)

\* C12: strip_metadata(x) leaves x and every mapping and sequence reachable
\* from x as they were, and no mapping or sequence of its result is an
\* object of the input.
StripLeavesInputAlone ==
    StripCalled =>
        /\ \A a \in Reach(pre, call.data) : heap[a] = pre[a]
        /\ Snap(heap, call.data) = Snap(pre, call.data)
        /\ Reach(heap, call.ret) \cap Reach(pre, call.data) = {}
        /\ \A a \in Reach(heap, call.ret) : a > Len(pre)

\* A mapping stripped that held a status key and, under another key, a
\* container.
StripOfMappingHoldingContainer ==
    /\ StripCalled
    /\ IsMapping(pre, call.data)
    /\ KeySet(pre, call.data) \cap StatusKeys # {}
    /\ \E key \in KeySet(pre, call.data) \ StatusKeys :
           IsRef(Item(pre, call.data, key))

---------------------------------------------------------------------------
(* Metadata Combiner: the claims.                                          *)

CombineCalled == call.op = "combine"

\* The keys the combiner is to leave out, whatever they start with.
CombineReservedKeys == StatusKeys \cup { <<"a", "n", "s", "i", "b", "l", "e", "_", "f", "a", "c", "t", "s">> }

\* Whether key starts with "ansible_".
HasAnsiblePrefix(key) ==
    /\ Len(key) >= Len(<<"a", "n", "s", "i", "b", "l", "e", "_">>)
    /\ \A i \in 1..Len(<<"a", "n", "s", "i", "b", "l", "e", "_">>) : key[i] = <<"a", "n", "s", "i", "b", "l", "e", "_">>[i]

\* The places of the arguments that are mappings.
MappingArgs == {i \in 1..Len(call.args) : IsMapping(pre, call.args[i])}

\* The keys of the i-th argument that the combiner is to take.
RelevantOf(i) ==
    {key \in KeySet(pre, call.args[i]) :
        key \notin CombineReservedKeys /\ ~HasAnsiblePrefix(key)}

\* Whether y, in heap g, holds in every mapping, at every depth, the keys
\* of x, in heap h, that start with "ansible_", and lacks none of x's keys
\* but status keys.
RECURSIVE AnsibleKept(_, _, _, _)
AnsibleKept(h, x, g, y) ==
    IF IsMapping(h, x)
    THEN /\ IsMapping(g, y)
         /\ \A key \in KeySet(h, x) :
                /\ HasAnsiblePrefix(key) => key \in KeySet(g, y)
                /\ key \notin KeySet(g, y) => key \in StatusKeys
                /\ key \in KeySet(g, y) =>
                       AnsibleKept(h, Item(h, x, key), g, Item(g, y, key))
    ELSE IF IsList(h, x)
    THEN /\ IsList(g, y)
         /\ Len(Elems(g, y)) = Len(Elems(h, x))
         /\ \A i \in 1..Len(Elems(h, x)) :
                AnsibleKept(h, Elems(h, x)[i], g, Elems(g, y)[i])
    ELSE TRUE

\* C13: strip_metadata keeps "ansible_facts" and every key starting with
\* "ansible_" in every mapping at every depth, removing a key only when it
\* is one of the six status keys; the result of combine_info holds neither
\* "ansible_facts" nor any key starting with "ansible_".
StripKeepsCombineDropsAnsibleKeys ==
    /\ StripCalled => AnsibleKept(pre, call.data, heap, call.ret)
    /\ CombineCalled =>
           \A key \in KeySet(heap, call.ret) :
               key # <<"a", "n", "s", "i", "b", "l", "e", "_", "f", "a", "c", "t", "s">> /\ ~HasAnsiblePrefix(key)

\* A source stripped that holds "ansible_facts" and under it a mapping with
\* another key starting with "ansible_": keys the combiner would drop.
StripOfNestedAnsibleKeys ==
    /\ StripCalled
    /\ IsMapping(pre, call.data)
    /\ <<"a", "n", "s", "i", "b", "l", "e", "_", "f", "a", "c", "t", "s">> \in KeySet(pre, call.data)
    /\ LET facts == Item(pre, call.data, <<"a", "n", "s", "i", "b", "l", "e", "_", "f", "a", "c", "t", "s">>)
       IN /\ IsMapping(pre, facts)
          /\ \E key \in KeySet(pre, facts) :
                 HasAnsiblePrefix(key) /\ key # <<"a", "n", "s", "i", "b", "l", "e", "_", "f", "a", "c", "t", "s">>

\* C14: the keys of combine_info(*args) are exactly the keys of the
\* arguments that are mappings, less the seven reserved keys and the keys
\* starting with "ansible_"; an argument that is not a mapping adds nothing,
\* and the call returns a mapping, each key once, without raising.
CombineKeepsRelevantKeys ==
    CombineCalled =>
        /\ call.ok
        /\ IsMapping(heap, call.ret)
        /\ KeySet(heap, call.ret) = UNION {RelevantOf(i) : i \in MappingArgs}
        /\ Len(heap[call.ret.a].entries) = Cardinality(KeySet(heap, call.ret))

\* A combination of an argument that is not a mapping, a mapping with a key
\* to leave out and a mapping with a key to take.
CombineOfMixedArguments ==
    /\ CombineCalled
    /\ \E i \in 1..Len(call.args) : i \notin MappingArgs
    /\ \E i \in MappingArgs : KeySet(pre, call.args[i]) \ RelevantOf(i) # {}
    /\ \E i \in MappingArgs : RelevantOf(i) # {}

\* The place of the last argument that holds key as a relevant key.
LastWith(key) ==
    CHOOSE i \in MappingArgs :
        /\ key \in RelevantOf(i)
        /\ \A j \in MappingArgs : key \in RelevantOf(j) => j <= i

\* C15: under every key of combine_info(*args) is the value the last
\* argument holding that key as a relevant key has under it: the same
\* object, unchanged in every part, whatever an earlier argument held there
\* and whatever keys it holds below the top.
CombineLastSourceWins ==
    CombineCalled =>
        \A key \in KeySet(heap, call.ret) :
            LET last == call.args[LastWith(key)]
            IN /\ Item(heap, call.ret, key) = Item(pre, last, key)
               /\ Snap(heap, Item(heap, call.ret, key)) = Snap(pre, Item(pre, last, key))

\* A combination of two sources holding under the same key two mappings
\* that differ, the later one with a reserved key in it.
CombineOfCollidingMappings ==
    /\ CombineCalled
    /\ \E i \in MappingArgs, j \in MappingArgs :
           /\ i < j
           /\ \E key \in RelevantOf(i) \cap RelevantOf(j) :
                  LET x == Item(pre, call.args[i], key)
                      y == Item(pre, call.args[j], key)
                  IN /\ IsMapping(pre, x) /\ IsMapping(pre, y)
                     /\ Snap(pre, x) # Snap(pre, y)
                     /\ KeySet(pre, y) \cap CombineReservedKeys # {}

\* C16: combine_info(*args) leaves every argument, and every object
\* reachable from one, as it was, and returns a mapping that is a new
\* object, none of the arguments.
CombineLeavesSourcesAlone ==
    CombineCalled =>
        /\ \A i \in 1..Len(call.args) :
               /\ \A a \in Reach(pre, call.args[i]) : heap[a] = pre[a]
               /\ Snap(heap, call.args[i]) = Snap(pre, call.args[i])
               /\ call.ret # call.args[i]
        /\ call.ret.a > Len(pre)

\* A combination whose first argument is a mapping and whose later
\* arguments bring a relevant key the first one lacks.
CombineOfSourcesAddingKeys ==
    /\ CombineCalled
    /\ Len(call.args) >= 2
    /\ 1 \in MappingArgs
    /\ RelevantOf(1) # {}
    /\ \E j \in MappingArgs : RelevantOf(j) \ KeySet(pre, call.args[1]) # {}

---------------------------------------------------------------------------
(* Key Extractor: the claims.                                              *)

ExtractCalled == call.op = "extract"

\* Whether data is a mapping with the key "objects".
HoldsObjects == IsMapping(pre, call.data) /\ <<"o", "b", "j", "e", "c", "t", "s">> \in KeySet(pre, call.data)

\* What data holds under "objects".
Objects == Item(pre, call.data, <<"o", "b", "j", "e", "c", "t", "s">>)

\* Whether that is a sequence of mappings.
ObjectsAreRecords ==
    /\ IsList(pre, Objects)
    /\ \A i \in 1..Len(Elems(pre, Objects)) : IsMapping(pre, Elems(pre, Objects)[i])

\* The records that hold the key asked for, in their order.
RecordsWithKey ==
    SelectSeq(Elems(pre, Objects), LAMBDA obj : call.key.s \in KeySet(pre, obj))

ExtractShapeErrorIsItsOwnKind ==
    (ExtractCalled /\ ~HoldsObjects) =>
        /\ ~call.ok
        /\ call.err.type = "AnsibleFilterError"
        /\ ~call.err.wraps
        /\ call.err.key = <<>>

\* C19: when data holds under "objects" anything but a sequence of
\* mappings, extract_key raises: it returns no list.
ExtractRaisesOnIllShapedObjects ==
    (ExtractCalled /\ HoldsObjects /\ ~ObjectsAreRecords) => ~call.ok

---------------------------------------------------------------------------
(* Deep Obfuscator: the claims.                                            *)

ObfuscateCalled == call.op = "obfuscate"

\* The terms of the call and, place for place, its results.
Terms == IF IsList(pre, call.terms) THEN Elems(pre, call.terms) ELSE <<call.terms>>
Results == Elems(heap, call.ret)

\* The strings stored, under a key or as an element, in the containers
\* reachable from v in heap h.
StringsIn(h, v) ==
    UNION {IF h[a].kind = "list"
           THEN {h[a].elems[i] : i \in {j \in 1..Len(h[a].elems) : IsStr(h[a].elems[j])}}
           ELSE {h[a].entries[i][2]
                   : i \in {j \in 1..Len(h[a].entries) : IsStr(h[a].entries[j][2])}}
             : a \in Reach(h, v)}

\* Whether "GPU-" at place i of s is followed by "XXXXXX" and then by no
\* further letter, digit or hyphen.
MaskedAt(s, i) ==
    LET from == i + Len(GpuPrefix)
        to == from + Len(GpuMask) - 1
    IN /\ to <= Len(s)
       /\ SubSeq(s, from, to) = GpuMask
       /\ to = Len(s) \/ s[to + 1] \notin AlnumHyphen

\* Whether s holds "GPU-" followed by letters, digits or hyphens that are
\* not just the mask.
HoldsGpuUuid(s) ==
    \E i \in 1..(Len(s) - Len(GpuPrefix)) :
        /\ SubSeq(s, i, i + Len(GpuPrefix) - 1) = GpuPrefix
        /\ s[i + Len(GpuPrefix)] \in AlnumHyphen
        /\ ~MaskedAt(s, i)

\* C20: in the result of the obfuscate lookup for a term that is a mapping,
\* no string, under whatever key at whatever depth or as an element of a
\* sequence, holds "GPU-" followed by letters, digits or hyphens other than
\* "GPU-XXXXXX".
ObfuscateLeavesNoGpuUuid ==
    ObfuscateCalled =>
        \A i \in 1..Len(Terms) :
            IsMapping(pre, Terms[i]) =>
                \A v \in StringsIn(heap, Results[i]) : ~HoldsGpuUuid(v.s)

\* A lookup for a mapping term holding, as an element of a sequence
\* nested in a sequence, a string with a GPU UUID in it.
ObfuscateOfUuidInNestedSequence ==
    /\ ObfuscateCalled
    /\ \E i \in 1..Len(Terms) :
           /\ IsMapping(pre, Terms[i])
           /\ \E a \in Reach(pre, Terms[i]) :
                  /\ pre[a].kind = "list"
                  /\ \E j \in 1..Len(pre[a].elems) :
                         /\ IsList(pre, pre[a].elems[j])
                         /\ \E v \in StringsIn(pre, pre[a].elems[j]) : HoldsGpuUuid(v.s)

\* Whether key is word in some letter case.
SameWord(key, word) ==
    /\ Len(key) = Len(word)
    /\ \A i \in 1..Len(word) :
           \/ key[i] = word[i]
           \/ \E j \in 1..Len(LowerCase) : LowerCase[j] = word[i] /\ UpperCase[j] = key[i]

\* Whether a string under key is to be redacted whole.
IsSensitiveKey(key) ==
    \/ \E word \in { <<"u", "s", "e", "r", "n", "a", "m", "e">>, <<"u", "s", "e", "r">>,
                      <<"h", "o", "s", "t", "n", "a", "m", "e">>, <<"u", "s", "e", "r", "_", "i", "d">> } : SameWord(key, word)
    \/ key = <<"w", "a", "n", "_", "a", "d", "d", "r", "e", "s", "s">>

\* Whether y, in the heap after the call, holds "[OBFUSCATED]" wherever x,
\* in the heap before it, holds a string under a sensitive key, in every
\* mapping at every depth.
RECURSIVE RedactedIn(_, _)
RedactedIn(x, y) ==
    IF IsMapping(pre, x)
    THEN /\ IsMapping(heap, y)
         /\ \A key \in KeySet(pre, x) :
                /\ key \in KeySet(heap, y)
                /\ IF IsStr(Item(pre, x, key))
                   THEN IsSensitiveKey(key) => Item(heap, y, key) = Str(Obfuscated)
                   ELSE RedactedIn(Item(pre, x, key), Item(heap, y, key))
    ELSE IF IsList(pre, x)
    THEN /\ IsList(heap, y)
         /\ Len(Elems(heap, y)) = Len(Elems(pre, x))
         /\ \A i \in 1..Len(Elems(pre, x)) :
                RedactedIn(Elems(pre, x)[i], Elems(heap, y)[i])
    ELSE TRUE

\* C21: in the result for a term that is a mapping, every string stored
\* directly under username, user, hostname or user_id in any letter case,
\* or under wan_address, at any depth, is "[OBFUSCATED]".
ObfuscateRedactsSensitiveKeys ==
    ObfuscateCalled =>
        \A i \in 1..Len(Terms) :
            IsMapping(pre, Terms[i]) => RedactedIn(Terms[i], Results[i])

\* A lookup for a mapping term holding, below the top, a string that is
\* not yet "[OBFUSCATED]" under a sensitive key written in capitals.
ObfuscateOfCapitalKeyBelowTop ==
    /\ ObfuscateCalled
    /\ \E i \in 1..Len(Terms) :
           /\ IsMapping(pre, Terms[i])
           /\ \E a \in Reach(pre, Terms[i]) \ {Terms[i].a} :
                  /\ pre[a].kind = "dict"
                  /\ \E key \in SeqRange(DictKeys(pre[a])) :
                         /\ IsSensitiveKey(key)
                         /\ key[1] \in SeqRange(UpperCase)
                         /\ IsStr(GetItem(pre[a], key))
                         /\ GetItem(pre[a], key) # Str(Obfuscated)

\* The objects of the terms that are mappings.
MappingTermObjects ==
    UNION {Reach(pre, Terms[i]) : i \in {j \in 1..Len(Terms) : IsMapping(pre, Terms[j])}}

\* The heap before the call, with secret in the place of every string that
\* a mapping term stores directly under a sensitive key.
WithSecret(secret) ==
    [a \in 1..Len(pre) |->
        IF a \in MappingTermObjects /\ pre[a].kind = "dict"
        THEN DictObj([i \in 1..Len(pre[a].entries) |->
                 LET e == pre[a].entries[i]
                 IN IF IsStr(e[2]) /\ IsSensitiveKey(e[1]) THEN <<e[1], Str(secret)>> ELSE e])
        ELSE pre[a]]

\* Strings to put in their place: none, plain, a GPU UUID.
OtherSecrets == {<<>>, <<"x">>, GpuPrefix \o <<"a">>}

\* C22: the result for a mapping term does not depend on the strings the
\* term stores directly under sensitive keys: the lookup for the terms
\* with any other strings in their place has, term for term, the same
\* result.
ObfuscateHidesSensitiveStrings ==
    ObfuscateCalled =>
        \A secret \in OtherSecrets :
            LET other == run(WithSecret(secret), call.terms)
            IN \A i \in 1..Len(Terms) :
                   IsMapping(pre, Terms[i]) =>
                       Snap(other.h, Elems(other.h, other.v)[i]) = Snap(heap, Results[i])

\* A lookup for a mapping term that stores directly under a sensitive key
\* a string with a GPU UUID in it, none of the strings put in its place.
ObfuscateOfSecretUnderSensitiveKey ==
    /\ ObfuscateCalled
    /\ \E a \in MappingTermObjects :
           /\ pre[a].kind = "dict"
           /\ \E key \in SeqRange(DictKeys(pre[a])) :
                  /\ IsSensitiveKey(key)
                  /\ IsStr(GetItem(pre[a], key))
                  /\ HoldsGpuUuid(GetItem(pre[a], key).s)
                  /\ GetItem(pre[a], key).s \notin OtherSecrets

\* The parts of s that its slashes separate, in order.
RECURSIVE Split(_)
Split(s) ==
    IF \A i \in 1..Len(s) : s[i] # "/" THEN <<s>>
    ELSE LET i == CHOOSE j \in 1..Len(s) :
                      s[j] = "/" /\ \A k \in 1..(j - 1) : s[k] # "/"
         IN <<SubSeq(s, 1, i - 1)>> \o Split(SubSeq(s, i + 1, Len(s)))

HomeName == <<"h", "o", "m", "e">>

\* Whether the part at place j of parts follows "/home/" and is not empty.
IsHomeDir(parts, j) ==
    j >= 3 /\ parts[j - 1] = HomeName /\ parts[j] # <<>>

\* Whether result is masked with its home directories replaced and the
\* rest kept: it has masked's slashes, and between them masked's parts or,
\* only for a home directory of masked, "[OBFUSCATED]".
HomesReplaced(masked, result) ==
    LET was == Split(masked)
        is == Split(result)
    IN /\ Len(is) = Len(was)
       /\ \A j \in 1..Len(was) :
              is[j] = was[j] \/ (is[j] = Obfuscated /\ IsHomeDir(was, j))

\* The strings stored under a key in x, before the call, each with its key
\* and with what stands at its place in y, after the call, for every
\* mapping at every depth: [key, was, is].
RECURSIVE StoredStrings(_, _)
StoredStrings(x, y) ==
    IF IsMapping(pre, x)
    THEN UNION {IF IsStr(Item(pre, x, key))
                THEN {[key |-> key, was |-> Item(pre, x, key), is |-> Item(heap, y, key)]}
                ELSE StoredStrings(Item(pre, x, key), Item(heap, y, key))
                  : key \in KeySet(pre, x)}
    ELSE IF IsList(pre, x)
    THEN UNION {StoredStrings(Elems(pre, x)[i], Elems(heap, y)[i])
                  : i \in 1..Len(Elems(pre, x))}
    ELSE {}

\* The same for all the terms that are mappings.
StoredInMappingTerms ==
    UNION {StoredStrings(Terms[i], Results[i])
             : i \in {j \in 1..Len(Terms) : IsMapping(pre, Terms[j])}}

IsPathKey(key) == key = <<"p", "a", "t", "h">>

\* Every home directory of the string, as it is after the GPU rule, is
\* replaced: also one that begins within another.
PathHidesEveryHome(key, was, is) ==
    IF IsPathKey(key)
    THEN /\ HomesReplaced(SubGpu(was, 1), is)
         /\ \A j \in 1..Len(Split(is)) :
                IsHomeDir(Split(SubGpu(was, 1)), j) => Split(is)[j] = Obfuscated
    ELSE ~IsSensitiveKey(key) => is = SubGpu(was, 1)

\* No home directory is left in the result.
PathLeavesNoHome(key, was, is) ==
    IF IsPathKey(key)
    THEN /\ HomesReplaced(SubGpu(was, 1), is)
         /\ \A j \in 1..Len(Split(is)) :
                IsHomeDir(Split(is), j) => Split(is)[j] = Obfuscated
    ELSE ~IsSensitiveKey(key) => is = SubGpu(was, 1)

\* C23 as claimed: in the result for a mapping term, a string stored
\* directly under "path" has "[OBFUSCATED]" for every run of non-slash
\* characters that followed "/home/" in it, and is otherwise as the GPU rule
\* left it; a string under a key that is neither "path" nor sensitive is as
\* the GPU rule left it.
ObfuscateReplacesEveryHome ==
    ObfuscateCalled =>
        \A t \in StoredInMappingTerms :
            IsStr(t.is) /\ PathHidesEveryHome(t.key, t.was.s, t.is.s)

\* C23 as amended: the same, with "[OBFUSCATED]" for every run of
\* non-slash characters that followed "/home/" and was not itself part of a
\* "/home/" already replaced, so that the result shows no home directory.
ObfuscateLeavesNoHome ==
    ObfuscateCalled =>
        \A t \in StoredInMappingTerms :
            IsStr(t.is) /\ PathLeavesNoHome(t.key, t.was.s, t.is.s)

\* A lookup for a mapping term holding under "path" a string with a home
\* directory and more of the path after it.
ObfuscateOfHomePath ==
    /\ ObfuscateCalled
    /\ IsMapping(pre, call.terms)
    /\ \E key \in KeySet(pre, call.terms) :
           /\ IsPathKey(key)
           /\ IsStr(Item(pre, call.terms, key))
           /\ LET parts == Split(Item(pre, call.terms, key).s)
              IN \E j \in 1..(Len(parts) - 1) : IsHomeDir(parts, j)

RECURSIVE Listed(_, _, _)
Listed(x, y, under) ==
    IF IsMapping(pre, x)
    THEN UNION {Listed(Item(pre, x, key), Item(heap, y, key), key) : key \in KeySet(pre, x)}
    ELSE IF IsList(pre, x)
    THEN UNION {{[key |-> under, was |-> Elems(pre, x)[i], is |-> Elems(heap, y)[i]]}
                  \cup Listed(Elems(pre, x)[i], Elems(heap, y)[i], under)
                  : i \in 1..Len(Elems(pre, x))}
    ELSE {}

\* The same for all the terms that are mappings.
ListedInMappingTerms ==
    UNION {Listed(Terms[i], Results[i], <<>>)
             : i \in {j \in 1..Len(Terms) : IsMapping(pre, Terms[j])}}

\* C25: in the result for a term that is a mapping, a string that is an
\* element of a sequence is changed by the GPU rule and by nothing else,
\* whatever key the sequence is stored under; in an element that is a
\* mapping, a string under a sensitive key is "[OBFUSCATED]" again.
ObfuscateSequenceDropsKey ==
    ObfuscateCalled =>
        \A e \in ListedInMappingTerms :
            /\ IsStr(e.was) => e.is = Str(SubGpu(e.was.s, 1))
            /\ IsMapping(pre, e.was) =>
                   \A key \in KeySet(pre, e.was) :
                       (IsStr(Item(pre, e.was, key)) /\ IsSensitiveKey(key))
                           => Item(heap, e.is, key) = Str(Obfuscated)

\* A lookup for a mapping that stores, under a sensitive key, a sequence
\* of a string with a GPU UUID, or under "path" a sequence of a home
\* directory: the string is an element, and is not redacted whole.
ObfuscateOfSequenceUnderSensitiveKey ==
    /\ ObfuscateCalled
    /\ \E e \in ListedInMappingTerms :
           /\ IsStr(e.was)
           /\ \/ IsSensitiveKey(e.key) /\ HoldsGpuUuid(e.was.s)
              \/ IsPathKey(e.key) /\ e.was.s = HomePrefix \o <<"a", "1">>
           /\ e.is # Str(Obfuscated)

\* The scalars that are no strings stored under a key in x, before the
\* call, each with its key and with what stands at its place in y, after
\* the call, for every mapping at every depth: [key, was, is].
RECURSIVE StoredScalars(_, _)
StoredScalars(x, y) ==
    IF IsMapping(pre, x)
    THEN UNION {IF IsRef(Item(pre, x, key))
                THEN StoredScalars(Item(pre, x, key), Item(heap, y, key))
                ELSE IF IsStr(Item(pre, x, key)) THEN {}
                ELSE {[key |-> key, was |-> Item(pre, x, key), is |-> Item(heap, y, key)]}
                  : key \in KeySet(pre, x)}
    ELSE IF IsList(pre, x)
    THEN UNION {StoredScalars(Elems(pre, x)[i], Elems(heap, y)[i])
                  : i \in 1..Len(Elems(pre, x))}
    ELSE {}

\* The same for all the terms that are mappings.
ScalarsInMappingTerms ==
    UNION {StoredScalars(Terms[i], Results[i])
             : i \in {j \in 1..Len(Terms) : IsMapping(pre, Terms[j])}}

\* C26: in the result for a term that is a mapping, a number, a boolean or
\* null stored under any key, a sensitive one included, at any depth, is
\* the same as in the term.
ObfuscateKeepsOtherScalars ==
    ObfuscateCalled => \A e \in ScalarsInMappingTerms : e.is = e.was

\* A lookup for a mapping that holds a number under a sensitive key, below
\* the top.
ObfuscateOfNumberUnderSensitiveKey ==
    /\ ObfuscateCalled
    /\ \E i \in 1..Len(Terms) :
           /\ IsMapping(pre, Terms[i])
           /\ \E key \in KeySet(pre, Terms[i]) :
                  /\ IsRef(Item(pre, Terms[i], key))
                  /\ \E e \in StoredScalars(Item(pre, Terms[i], key), Item(heap, Results[i], key)) :
                         /\ IsSensitiveKey(e.key)
                         /\ e.was = Num(1)

\* The elements of what data holds under "objects" that are mappings with
\* the key asked for, in their order.
Contributors ==
    SelectSeq(IterElems(pre, Objects),
              LAMBDA obj : IsMapping(pre, obj) /\ call.key.s \in KeySet(pre, obj))

\* C30: whenever extract_key returns, its list has an entry for each
\* element that holds the key, whatever the value, and an entry is null
\* exactly where the element maps the key to null: an element without the
\* key gives no null, an element with a null value is not skipped.
ExtractNullOnlyWhereStored ==
    (ExtractCalled /\ call.ok) =>
        /\ HoldsObjects
        /\ Len(Elems(heap, call.ret)) = Len(Contributors)
        /\ \A i \in 1..Len(Contributors) :
               Elems(heap, call.ret)[i] = Null
                   <=> Item(pre, Contributors[i], call.key.s) = Null

\* An extraction from a record without the key and a record that maps the
\* key to null: the list returned is one null.
ExtractOfNullValue ==
    /\ ExtractCalled /\ call.ok /\ HoldsObjects /\ ObjectsAreRecords
    /\ Len(Elems(pre, Objects)) = 2
    /\ \E i, j \in 1..2 :
           /\ call.key.s \notin KeySet(pre, Elems(pre, Objects)[i])
           /\ call.key.s \in KeySet(pre, Elems(pre, Objects)[j])
           /\ Item(pre, Elems(pre, Objects)[j], call.key.s) = Null
    /\ Elems(heap, call.ret) = <<Null>>

---------------------------------------------------------------------------
(* Merges in series: the claims.                                           *)

SeriesBase == inputs[1]
FirstOverlay == inputs[2]
OtherOverlay == inputs[3]

FirstMerged == call.op = "first" /\ call.ok
\* The second merge took the other overlay, and returned.
OtherMerged == call.op = "next" /\ call.overlay = OtherOverlay /\ call.ok
\* The second merge took the first overlay again.
FirstMergedAgain == call.op = "next" /\ call.overlay = FirstOverlay

\* The keys that, when the series began, only the first overlay held, with
\* a list or a mapping under them.
InsertedContainers ==
    {key \in KeySet(call.start, FirstOverlay) \ KeySet(call.start, SeriesBase) :
        IsRef(Item(call.start, FirstOverlay, key))}

\* The elements of the list ys that equal no element of the list xs, in
\* heap h.
NewElems(h, xs, ys) == SelectSeq(Elems(h, ys), LAMBDA v : ~PyIn(h, v, Elems(h, xs)))

\* C27: after merge(A, B), under a key that only B held, with a list or a
\* mapping, A holds the very object B holds. After a following
\* merge(A, C) where C holds under that key a value of the same kind, B
\* still holds that object, and it is the object that was merged into: a
\* list now holds C's new elements after its own, a mapping holds also
\* the keys of C's mapping. The first overlay is changed by the second
\* merge.
SeriesChangesEarlierOverlay ==
    /\ FirstMerged =>
           \A key \in InsertedContainers :
               /\ Item(heap, SeriesBase, key) = Item(heap, FirstOverlay, key)
               /\ Item(heap, FirstOverlay, key) = Item(call.start, FirstOverlay, key)
    /\ OtherMerged =>
           \A key \in InsertedContainers \cap KeySet(pre, OtherOverlay) :
               LET b == Item(pre, FirstOverlay, key)
                   c == Item(pre, OtherOverlay, key)
               IN /\ (IsList(pre, b) /\ IsList(pre, c)) =>
                         /\ Item(heap, FirstOverlay, key) = b
                         /\ Item(heap, SeriesBase, key) = b
                         /\ Elems(heap, b) = Elems(pre, b) \o NewElems(pre, b, c)
                  /\ (IsMapping(pre, b) /\ IsMapping(pre, c)) =>
                         /\ Item(heap, FirstOverlay, key) = b
                         /\ Item(heap, SeriesBase, key) = b
                         /\ KeySet(heap, b) = KeySet(pre, b) \cup KeySet(pre, c)

\* A series in which the base lacks a key, the first overlay holds a list
\* under it and the other overlay a list with a new element: what the
\* first overlay holds is no longer what it held when the series began.
SeriesOfListOnlyInFirstOverlay ==
    /\ OtherMerged
    /\ \E key \in InsertedContainers \cap KeySet(pre, OtherOverlay) :
           /\ IsList(pre, Item(pre, FirstOverlay, key))
           /\ IsList(pre, Item(pre, OtherOverlay, key))
           /\ NewElems(pre, Item(pre, FirstOverlay, key), Item(pre, OtherOverlay, key)) # <<>>
    /\ Snap(heap, FirstOverlay) # Snap(call.start, FirstOverlay)

\* Whether the values the mappings x and y both hold a key for are, in heap
\* h and at every depth, two scalars, two lists or two mappings.
RECURSIVE Compatible(_, _, _)
Compatible(h, x, y) ==
    \A key \in KeySet(h, x) \cap KeySet(h, y) :
        LET a == Item(h, x, key)
            b == Item(h, y, key)
        IN \/ ~IsRef(a) /\ ~IsRef(b)
           \/ IsList(h, a) /\ IsList(h, b)
           \/ IsMapping(h, a) /\ IsMapping(h, b) /\ Compatible(h, a, b)

\* C29: for mappings A and B whose colliding values are at every depth
\* both scalars, both lists or both mappings,
\* recursive_merge(recursive_merge(A, B), B) returns A and its second merge
\* changes nothing: every object is as the first merge left it, no list
\* has grown, no value is another one.
SeriesSameOverlayAgainChangesNothing ==
    (FirstMergedAgain /\ Compatible(call.start, SeriesBase, FirstOverlay)) =>
        /\ call.ok
        /\ call.ret = SeriesBase
        /\ heap = pre
        /\ Snap(heap, SeriesBase) = Snap(pre, SeriesBase)

\* The same overlay merged twice, where the first merge made the base's
\* list under one key grow and, under another key, stored the overlay's
\* own list in the base.
SeriesOfSameOverlayTwice ==
    /\ FirstMergedAgain
    /\ Compatible(call.start, SeriesBase, FirstOverlay)
    /\ \E key \in InsertedContainers :
           /\ IsList(pre, Item(pre, FirstOverlay, key))
           /\ Item(pre, SeriesBase, key) = Item(pre, FirstOverlay, key)
    /\ \E key \in KeySet(call.start, SeriesBase) \cap KeySet(call.start, FirstOverlay) :
           /\ IsList(call.start, Item(call.start, SeriesBase, key))
           /\ IsList(call.start, Item(call.start, FirstOverlay, key))
           /\ NewElems(call.start, Item(call.start, SeriesBase, key),
                       Item(call.start, FirstOverlay, key)) # <<>>

---------------------------------------------------------------------------
(* Combiner, then Merger: the claims.                                      *)

Source == inputs[1]
Overlay == inputs[2]

SourceCombined == call.op = "combined"
OverlayMerged == call.op = "merged" /\ call.ok

\* The keys of the source that the combined record has, and that the
\* overlay has too.
SharedKeys ==
    KeySet(call.start, Source) \cap KeySet(pre, call.base) \cap KeySet(pre, Overlay)

===========================================================================
